---- MODULE Spec2Model ----
(***************************************************************************)
(* The persistent block-state storage of the ledger node                  *)
(* (crates/apps/src/lib/node/ledger/storage/rocksdb.rs): the six column   *)
(* families, the write batch, the subspace diff machinery, the block       *)
(* writer and reader, replay protection and the single-step rollback.     *)
(***************************************************************************)
EXTENDS Integers, Sequences, FiniteSets, TLC

\* ------------------------------------------------------------------ bounds
\* Largest block height a block is committed at.
MaxHeight == 2
\* Largest number of subspace writes/deletes staged in one block's batch.
MaxOps == 2
\* Largest distance between two consecutively committed heights.
MaxGap == 2
\* Number of distinct block contents (hash, time, ...) a height can be given.
NumTags == 1
\* Number of account keys written to the subspace.
NumKeys == 1
\* Largest number of rollback calls in one behaviour.
MaxRollbacks == 2
\* Number of transaction hashes the replay-protection operations draw from.
NumHashes == 2
\* Number of two-segment subspace keys the iterated store draws from.
NumIterKeys == 3
\* Largest block height of the chains whose blocks are dumped.
MaxDumpHeight == 10

Heights == 0..MaxHeight
Tags == 1..NumTags
\* Account sub-space keys (one segment each) and the byte strings stored.
KeyNames == <<"k1", "k2", "k3">>
Keys == {KeyNames[i] : i \in 1..NumKeys}
Values == {<<1>>, <<2, 2>>}
HashNames == <<"tx1", "tx2", "tx3">>
IterKeyNames == <<<<"0", "a">>, <<"01", "a">>, <<"0", "b">>, <<"1", "a">>>>
IterKeys == {IterKeyNames[i] : i \in 1..NumIterKeys}
IterPrefixes == {<<"0">>, <<"01">>, <<"1">>}
Hashes == {HashNames[i] : i \in 1..NumHashes}

\* ------------------------------------------------------- source constants
BLOCK_HEIGHT_KEY == <<"height">>
NEXT_EPOCH_MIN_START_HEIGHT_KEY == <<"next_epoch_min_start_height">>
NEXT_EPOCH_MIN_START_TIME_KEY == <<"next_epoch_min_start_time">>
UPDATE_EPOCH_BLOCKS_DELAY_KEY == <<"update_epoch_blocks_delay">>
COMMIT_ONLY_DATA_KEY == <<"commit_only_data_commitment">>
CONVERSION_STATE_KEY == <<"conversion_state">>
ETHEREUM_HEIGHT_KEY == <<"ethereum_height">>
ETH_EVENTS_QUEUE_KEY == <<"eth_events_queue">>
RESULTS_KEY_PREFIX == "results"
PRED_KEY_PREFIX == "pred"
MERKLE_TREE_ROOT_KEY_SEGMENT == "root"
MERKLE_TREE_STORE_KEY_SEGMENT == "store"
BLOCK_HEADER_KEY_SEGMENT == "header"
BLOCK_HASH_KEY_SEGMENT == "hash"
BLOCK_TIME_KEY_SEGMENT == "time"
EPOCH_KEY_SEGMENT == "epoch"
PRED_EPOCHS_KEY_SEGMENT == "pred_epochs"
ADDRESS_GEN_KEY_SEGMENT == "address_gen"
OLD_DIFF_PREFIX == "old"
NEW_DIFF_PREFIX == "new"

SUBSPACE_CF == "subspace"
DIFFS_CF == "diffs"
ROLLBACK_CF == "rollback"
STATE_CF == "state"
BLOCK_CF == "block"
REPLAY_PROTECTION_CF == "replay_protection"
ColumnFamilies ==
    {SUBSPACE_CF, DIFFS_CF, ROLLBACK_CF, STATE_CF, BLOCK_CF, REPLAY_PROTECTION_CF}

\* ------------------------------------------------------------ Option<T>
None == <<>>
Some(v) == <<v>>
IsSome(o) == o # <<>>
Unwrap(o) == o[1]

\* ------------------------------------------- keys: sequences of segments
\* A DB key is the "/"-join of its segments; no segment holds a "/".
\* BlockHeight::raw / to_string / to_db_key: the decimal text of the height.
Raw(h) == ToString(h)

\* The decimal digits of n, most significant first.
RECURSIVE Digits(_)
Digits(n) == IF n < 10 THEN <<n>> ELSE Append(Digits(n \div 10), n % 10)

IsSeqPrefix(p, s) == Len(p) <= Len(s) /\ SubSeq(s, 1, Len(p)) = p

\* Key::join
Join(a, b) == a \o b

\* ---------------------------------------------------- the typed encoder
\* Little-endian bytes of n, `width` of them.
RECURSIVE EncodeLE(_, _)
EncodeLE(n, width) ==
    IF width = 0 THEN <<>> ELSE <<n % 256>> \o EncodeLE(n \div 256, width - 1)

\* Borsh: u64 as 8 little-endian bytes.
EncodeU64(n) == EncodeLE(n, 8)

RECURSIVE DecodeLE(_)
DecodeLE(b) == IF b = <<>> THEN 0 ELSE b[1] + 256 * DecodeLE(Tail(b))

DecodeU64(b) == DecodeLE(b)

\* Borsh: Vec<u64> as a u32 little-endian length followed by the items.
RECURSIVE ConcatU64(_)
ConcatU64(s) == IF s = <<>> THEN <<>> ELSE EncodeU64(Head(s)) \o ConcatU64(Tail(s))

EncodeEpochs(s) == EncodeLE(Len(s), 4) \o ConcatU64(s)

DecodeEpochs(b) ==
    [i \in 1..DecodeLE(SubSeq(b, 1, 4)) |-> DecodeLE(SubSeq(b, 8 * i - 3, 8 * i + 4))]

\* Epochs::get_epoch: the epoch a height belongs to, given the first block
\* heights of the epochs; the first known epoch has index 0.
GetEpoch(first_block_heights, h) ==
    IF first_block_heights = <<>> THEN None
    ELSE Some(Cardinality({i \in 2..Len(first_block_heights) : first_block_heights[i] <= h}))

\* ------------------------------------------------- column families, batch
EmptyMap == [k \in {} |-> <<>>]
EmptyDB == [cf \in ColumnFamilies |-> EmptyMap]

\* rocksdb get_cf on the committed store
GetCf(d, cf, key) == IF key \in DOMAIN d[cf] THEN Some(d[cf][key]) ELSE None

\* WriteBatch::put_cf / delete_cf: the last operation staged on a key wins.
PutCf(b, cf, key, value) ==
    [x \in DOMAIN b \cup {<<cf, key>>} |->
        IF x = <<cf, key>> THEN [put |-> TRUE, val |-> value] ELSE b[x]]

DeleteCf(b, cf, key) ==
    [x \in DOMAIN b \cup {<<cf, key>>} |->
        IF x = <<cf, key>> THEN [put |-> FALSE, val |-> <<>>] ELSE b[x]]

\* A write that applies the staged operations of every column family but the
\* two that hold the diffs.
ApplyBatchButDiffs(d, b) ==
    [cf \in ColumnFamilies |->
        IF cf \in {DIFFS_CF, ROLLBACK_CF} THEN d[cf]
        ELSE LET staged == {x[2] : x \in {y \in DOMAIN b : y[1] = cf}}
                 puts == {k \in staged : b[<<cf, k>>].put}
                 kept == (DOMAIN d[cf] \ staged) \cup puts
             IN [k \in kept |-> IF k \in puts THEN b[<<cf, k>>].val ELSE d[cf][k]]]

\* rocksdb write(batch): every staged operation is applied in one step.
ApplyBatch(d, b) ==
    [cf \in ColumnFamilies |->
        LET staged == {x[2] : x \in {y \in DOMAIN b : y[1] = cf}}
            puts == {k \in staged : b[<<cf, k>>].put}
            kept == (DOMAIN d[cf] \ staged) \cup puts
        IN [k \in kept |-> IF k \in puts THEN b[<<cf, k>>].val ELSE d[cf][k]]]

\* A staging that drops the deletes.
StageAllPutsOnly(b, cf, puts, dels) ==
    [x \in DOMAIN b \cup {<<cf, k>> : k \in DOMAIN puts} |->
        IF x[1] = cf /\ x[2] \in DOMAIN puts THEN [put |-> TRUE, val |-> puts[x[2]]]
        ELSE b[x]]

\* Stage puts (a map key -> value) and deletes (a set of keys) on one CF, the
\* puts and deletes being on distinct keys.
StageAll(b, cf, puts, dels) ==
    [x \in DOMAIN b \cup {<<cf, k>> : k \in DOMAIN puts \cup dels} |->
        IF x[1] = cf /\ x[2] \in DOMAIN puts THEN [put |-> TRUE, val |-> puts[x[2]]]
        ELSE IF x[1] = cf /\ x[2] \in dels THEN [put |-> FALSE, val |-> <<>>]
        ELSE b[x]]

\* RocksDB::read_value_bytes
read_value_bytes(d, cf, key) == GetCf(d, cf, key)

\* RocksDB::add_value_bytes_to_batch
add_value_bytes_to_batch(b, cf, key, value) == PutCf(b, cf, key, value)

\* A writer that stages the new value and no pred/<key> sibling.
add_state_value_to_batch_no_pred(d, b, cf, key, value) ==
    add_value_bytes_to_batch(b, cf, key, value)

\* A writer that stages the new value under pred/<key> and leaves the key.
add_state_value_to_batch_swapped(d, b, cf, key, value) ==
    PutCf(b, cf, <<PRED_KEY_PREFIX>> \o key, value)

\* RocksDB::add_state_value_to_batch: the current committed value, if any, is
\* staged under pred/<key> before the new value is staged.
add_state_value_to_batch(d, b, cf, key, value) ==
    LET current_value == GetCf(d, cf, key)
        b1 == IF IsSome(current_value)
              THEN PutCf(b, cf, <<PRED_KEY_PREFIX>> \o key, Unwrap(current_value))
              ELSE b
    IN add_value_bytes_to_batch(b1, cf, key, value)

\* old_and_new_diff_key
old_and_new_diff_key(key, height) ==
    << Join(<<Raw(height), OLD_DIFF_PREFIX>>, key),
       Join(<<Raw(height), NEW_DIFF_PREFIX>>, key) >>

\* RocksDB::batch_write_subspace_diff
batch_write_subspace_diff(b, height, key, old_value, new_value, persist_diffs) ==
    LET cf == IF persist_diffs THEN DIFFS_CF ELSE ROLLBACK_CF
        dk == old_and_new_diff_key(key, height)
        b1 == IF IsSome(old_value) THEN PutCf(b, cf, dk[1], Unwrap(old_value)) ELSE b
    IN IF IsSome(new_value) THEN PutCf(b1, cf, dk[2], Unwrap(new_value)) ELSE b1

\* RocksDB::read_subspace_val
read_subspace_val(d, key) == read_value_bytes(d, SUBSPACE_CF, key)

\* RocksDB::read_diffs_val
read_diffs_val(d, key, height, is_old) ==
    read_value_bytes(d, DIFFS_CF,
        IF is_old THEN old_and_new_diff_key(key, height)[1]
        ELSE old_and_new_diff_key(key, height)[2])

\* The loop of read_subspace_val_with_height over the successor heights.
RECURSIVE SuccessorLoop(_, _, _, _)
SuccessorLoop(d, key, raw_height, last_height) ==
    LET dk == old_and_new_diff_key(key, raw_height)
        old_val == read_value_bytes(d, DIFFS_CF, dk[1])
    IN IF IsSome(old_val) THEN old_val
       ELSE IF IsSome(read_value_bytes(d, DIFFS_CF, dk[2])) THEN None
       ELSE IF raw_height >= last_height THEN read_subspace_val(d, key)
       ELSE SuccessorLoop(d, key, raw_height + 1, last_height)

\* RocksDB::read_subspace_val_with_height
read_subspace_val_with_height(d, key, height, last_height) ==
    LET dk == old_and_new_diff_key(key, height)
        new_val == read_value_bytes(d, DIFFS_CF, dk[2])
    IN IF IsSome(new_val) THEN new_val
       ELSE IF IsSome(read_value_bytes(d, DIFFS_CF, dk[1])) THEN None
       ELSE SuccessorLoop(d, key, height + 1, last_height)

\* u64::MAX at the scale of the model: the heights are 0 .. MaxU64.
MaxU64 == MaxHeight + 1

\* Whether a diff row of the key, new or old, is stored at the height: the
\* first test of read_subspace_val_with_height then returns.
ChangedAt(d, key, height) ==
    LET dk == old_and_new_diff_key(key, height)
    IN IsSome(read_value_bytes(d, DIFFS_CF, dk[2]))
           \/ IsSome(read_value_bytes(d, DIFFS_CF, dk[1]))

\* A loop that goes on to the greatest height whatever last_height is.
RECURSIVE SuccessorHeightsToEnd(_, _, _, _)
SuccessorHeightsToEnd(d, key, raw_height, last_height) ==
    IF ChangedAt(d, key, raw_height) \/ raw_height >= MaxU64
    THEN <<raw_height>>
    ELSE <<raw_height>> \o SuccessorHeightsToEnd(d, key, raw_height + 1, last_height)

\* The heights the loop of read_subspace_val_with_height inspects, in order,
\* from raw_height on: it stops at a height with a diff row of the key, or at
\* the first height that is not below last_height.
RECURSIVE SuccessorHeights(_, _, _, _)
SuccessorHeights(d, key, raw_height, last_height) ==
    IF ChangedAt(d, key, raw_height) \/ raw_height >= last_height
    THEN <<raw_height>>
    ELSE <<raw_height>> \o SuccessorHeights(d, key, raw_height + 1, last_height)

\* How a call of read_subspace_val_with_height ends: the value returned and
\* the successor heights inspected.  `height.0 + 1` overflows at u64::MAX: a
\* build with overflow checks panics there, another one wraps to height 0.
read_subspace_val_with_height_outcome(d, key, height, last_height, overflow_checks) ==
    IF ChangedAt(d, key, height)
    THEN [result |-> "ok", inspected |-> <<>>,
          value |-> read_value_bytes(d, DIFFS_CF, old_and_new_diff_key(key, height)[2])]
    ELSE IF height = MaxU64 /\ overflow_checks
    THEN [result |-> "panic", inspected |-> <<>>, value |-> None]
    ELSE LET raw_height == (height + 1) % (MaxU64 + 1)
         IN [result |-> "ok",
             inspected |-> SuccessorHeights(d, key, raw_height, last_height),
             value |-> SuccessorLoop(d, key, raw_height, last_height)]

\* RocksDB::batch_write_subspace_val: the batch after the call.
batch_write_subspace_val(d, b, height, key, value, persist_diffs) ==
    LET old == read_value_bytes(d, SUBSPACE_CF, key)
        b1 == batch_write_subspace_diff(b, height, key, old, Some(value), persist_diffs)
    IN PutCf(b1, SUBSPACE_CF, key, value)

\* A result that is the length of the new value whatever the store holds.
batch_write_subspace_val_ret_new_len(d, key, value) == Len(value)

\* RocksDB::batch_write_subspace_val: the size difference it returns.
batch_write_subspace_val_ret(d, key, value) ==
    LET old == read_value_bytes(d, SUBSPACE_CF, key)
    IN IF IsSome(old) THEN Len(value) - Len(Unwrap(old)) ELSE Len(value)

\* A delete that stages the old diff row and leaves subspace[K] in place.
batch_delete_subspace_val_diff_only(d, b, height, key, persist_diffs) ==
    LET prev == read_value_bytes(d, SUBSPACE_CF, key)
    IN IF IsSome(prev)
       THEN batch_write_subspace_diff(b, height, key, prev, None, persist_diffs)
       ELSE b

\* RocksDB::batch_delete_subspace_val: the batch after the call.
batch_delete_subspace_val(d, b, height, key, persist_diffs) ==
    LET prev == read_value_bytes(d, SUBSPACE_CF, key)
        b1 == IF IsSome(prev)
              THEN batch_write_subspace_diff(b, height, key, prev, None, persist_diffs)
              ELSE b
    IN DeleteCf(b1, SUBSPACE_CF, key)

\* RocksDB::batch_delete_subspace_val: the previous length it returns.
batch_delete_subspace_val_ret(d, key) ==
    LET prev == read_value_bytes(d, SUBSPACE_CF, key)
    IN IF IsSome(prev) THEN Len(Unwrap(prev)) ELSE 0

\* ------------------------------------------------ block writer and reader
\* StoreType::iter(): the sub-trees of the Merkle tree; Base and CommitData
\* are stored per height, every other one per epoch.
StoreTypes == {"Base", "Account", "CommitData"}

\* tree_key_prefix_with_height / tree_key_prefix_with_epoch
tree_key_prefix_with_height(st, height) == <<"tree", st, Raw(height)>>
tree_key_prefix_with_epoch(st, epoch) == <<"tree", st, Raw(epoch)>>

\* RocksDB::read_value with the decoder of the field's type.
read_u64(d, cf, key) ==
    LET bytes == read_value_bytes(d, cf, key)
    IN IF IsSome(bytes) THEN Some(DecodeU64(Unwrap(bytes))) ELSE None

read_epochs(d, cf, key) ==
    LET bytes == read_value_bytes(d, cf, key)
    IN IF IsSome(bytes) THEN Some(DecodeEpochs(Unwrap(bytes))) ELSE None

\* The reads of read_last_block, each an Option: the height first, the block
\* CF fields under the prefix of the stored height.
last_block_fields(d) ==
    LET height == read_u64(d, STATE_CF, BLOCK_HEIGHT_KEY)
        prefix == IF IsSome(height) THEN Raw(Unwrap(height)) ELSE ""
    IN [height |-> height,
        next_epoch_min_start_height |->
            read_u64(d, STATE_CF, NEXT_EPOCH_MIN_START_HEIGHT_KEY),
        next_epoch_min_start_time |->
            read_value_bytes(d, STATE_CF, NEXT_EPOCH_MIN_START_TIME_KEY),
        update_epoch_blocks_delay |->
            read_value_bytes(d, STATE_CF, UPDATE_EPOCH_BLOCKS_DELAY_KEY),
        commit_only_data |-> read_value_bytes(d, STATE_CF, COMMIT_ONLY_DATA_KEY),
        conversion_state |-> read_value_bytes(d, STATE_CF, CONVERSION_STATE_KEY),
        ethereum_height |-> read_value_bytes(d, STATE_CF, ETHEREUM_HEIGHT_KEY),
        eth_events_queue |-> read_value_bytes(d, STATE_CF, ETH_EVENTS_QUEUE_KEY),
        results |-> read_value_bytes(d, BLOCK_CF, <<RESULTS_KEY_PREFIX, prefix>>),
        hash |-> read_value_bytes(d, BLOCK_CF, <<prefix, BLOCK_HASH_KEY_SEGMENT>>),
        time |-> read_value_bytes(d, BLOCK_CF, <<prefix, BLOCK_TIME_KEY_SEGMENT>>),
        epoch |-> read_u64(d, BLOCK_CF, <<prefix, EPOCH_KEY_SEGMENT>>),
        pred_epochs |-> read_epochs(d, BLOCK_CF, <<prefix, PRED_EPOCHS_KEY_SEGMENT>>),
        address_gen |-> read_value_bytes(d, BLOCK_CF, <<prefix, ADDRESS_GEN_KEY_SEGMENT>>)]

\* The record read_last_block builds once every field was found.
block_state_read(f) ==
    [hash |-> Unwrap(f.hash),
     height |-> Unwrap(f.height),
     time |-> Unwrap(f.time),
     epoch |-> Unwrap(f.epoch),
     pred_epochs |-> Unwrap(f.pred_epochs),
     results |-> Unwrap(f.results),
     conversion_state |-> Unwrap(f.conversion_state),
     next_epoch_min_start_height |-> Unwrap(f.next_epoch_min_start_height),
     next_epoch_min_start_time |-> Unwrap(f.next_epoch_min_start_time),
     update_epoch_blocks_delay |-> Unwrap(f.update_epoch_blocks_delay),
     address_gen |-> Unwrap(f.address_gen),
     ethereum_height |-> Unwrap(f.ethereum_height),
     eth_events_queue |-> Unwrap(f.eth_events_queue),
     commit_only_data |-> Unwrap(f.commit_only_data)]

\* A reader that does not ask for the conversion state.
read_last_block_without_conversion_state(d) ==
    LET f == last_block_fields(d)
    IN IF \/ ~IsSome(f.height)
          \/ ~IsSome(f.next_epoch_min_start_height)
          \/ ~IsSome(f.next_epoch_min_start_time)
          \/ ~IsSome(f.update_epoch_blocks_delay)
          \/ ~IsSome(f.commit_only_data)
          \/ ~IsSome(f.ethereum_height)
          \/ ~IsSome(f.eth_events_queue)
          \/ ~IsSome(f.results)
          \/ ~IsSome(f.hash)
          \/ ~IsSome(f.time)
          \/ ~IsSome(f.epoch)
          \/ ~IsSome(f.pred_epochs)
          \/ ~IsSome(f.address_gen)
       THEN None
       ELSE Some(block_state_read(
                [f EXCEPT !.conversion_state =
                    IF IsSome(@) THEN @ ELSE Some(<<>>)]))

\* RocksDB::read_last_block
read_last_block(d) ==
    LET f == last_block_fields(d)
    IN IF \/ ~IsSome(f.height)
          \/ ~IsSome(f.next_epoch_min_start_height)
          \/ ~IsSome(f.next_epoch_min_start_time)
          \/ ~IsSome(f.update_epoch_blocks_delay)
          \/ ~IsSome(f.commit_only_data)
          \/ ~IsSome(f.conversion_state)
          \/ ~IsSome(f.ethereum_height)
          \/ ~IsSome(f.eth_events_queue)
          \/ ~IsSome(f.results)
          \/ ~IsSome(f.hash)
          \/ ~IsSome(f.time)
          \/ ~IsSome(f.epoch)
          \/ ~IsSome(f.pred_epochs)
          \/ ~IsSome(f.address_gen)
       THEN None
       ELSE Some(block_state_read(f))

\* The height the state CF records, whether or not its block can be read.
StoredHeight(d) == DecodeU64(d[STATE_CF][BLOCK_HEIGHT_KEY])

\* A writer that stages the entries of every store type whatever is_full_commit is.
add_merkle_tree_stores_always(b, state, is_full_commit, sts) ==
    LET key_prefix(st) == IF st = "Base" \/ st = "CommitData"
                          THEN tree_key_prefix_with_height(st, state.height)
                          ELSE tree_key_prefix_with_epoch(st, state.epoch)
        keys == {Append(key_prefix(st), seg) :
                    st \in sts, seg \in {MERKLE_TREE_ROOT_KEY_SEGMENT,
                                          MERKLE_TREE_STORE_KEY_SEGMENT}}
    IN StageAll(b, BLOCK_CF,
           [k \in keys |-> IF k[4] = MERKLE_TREE_ROOT_KEY_SEGMENT
                           THEN state.merkle_tree_stores.root[k[2]]
                           ELSE state.merkle_tree_stores.store[k[2]]], {})

\* The Merkle tree entries add_block_to_batch stages.
RECURSIVE add_merkle_tree_stores(_, _, _, _)
add_merkle_tree_stores(b, state, is_full_commit, sts) ==
    IF sts = {} THEN b
    ELSE LET st == CHOOSE x \in sts : TRUE
             written == st = "Base" \/ st = "CommitData" \/ is_full_commit
             key_prefix == IF st = "Base" \/ st = "CommitData"
                           THEN tree_key_prefix_with_height(st, state.height)
                           ELSE tree_key_prefix_with_epoch(st, state.epoch)
             b1 == add_value_bytes_to_batch(b, BLOCK_CF,
                       Append(key_prefix, MERKLE_TREE_ROOT_KEY_SEGMENT),
                       state.merkle_tree_stores.root[st])
             b2 == add_value_bytes_to_batch(b1, BLOCK_CF,
                       Append(key_prefix, MERKLE_TREE_STORE_KEY_SEGMENT),
                       state.merkle_tree_stores.store[st])
         IN add_merkle_tree_stores(IF written THEN b2 ELSE b, state, is_full_commit,
                                   sts \ {st})

\* A writer that saves the conversion state whatever is_full_commit is.
add_conversion_state_always(d, b, state, is_full_commit) ==
    add_state_value_to_batch(d, b, STATE_CF, CONVERSION_STATE_KEY,
        state.conversion_state)

\* add_block_to_batch, "Save the conversion state when the epoch is updated":
\* the conversion state is staged, with its pred/ sibling, on a full commit only.
add_conversion_state(d, b, state, is_full_commit) ==
    IF is_full_commit
    THEN add_state_value_to_batch(d, b, STATE_CF, CONVERSION_STATE_KEY,
             state.conversion_state)
    ELSE b

\* RocksDB::add_block_to_batch: the batch after the call.
add_block_to_batch(d, b, state, is_full_commit) ==
    LET prefix == Raw(state.height)
        b1 == add_state_value_to_batch(d, b, STATE_CF, NEXT_EPOCH_MIN_START_HEIGHT_KEY,
                  EncodeU64(state.next_epoch_min_start_height))
        b2 == add_state_value_to_batch(d, b1, STATE_CF, NEXT_EPOCH_MIN_START_TIME_KEY,
                  state.next_epoch_min_start_time)
        b3 == add_state_value_to_batch(d, b2, STATE_CF, UPDATE_EPOCH_BLOCKS_DELAY_KEY,
                  state.update_epoch_blocks_delay)
        b4 == add_state_value_to_batch(d, b3, STATE_CF, COMMIT_ONLY_DATA_KEY,
                  state.commit_only_data)
        b5 == add_conversion_state(d, b4, state, is_full_commit)
        b6 == add_value_bytes_to_batch(b5, STATE_CF, ETHEREUM_HEIGHT_KEY,
                  state.ethereum_height)
        b7 == add_value_bytes_to_batch(b6, STATE_CF, ETH_EVENTS_QUEUE_KEY,
                  state.eth_events_queue)
        b8 == add_merkle_tree_stores(b7, state, is_full_commit, StoreTypes)
        b9 == IF IsSome(state.header)
              THEN add_value_bytes_to_batch(b8, BLOCK_CF,
                       <<prefix, BLOCK_HEADER_KEY_SEGMENT>>, Unwrap(state.header))
              ELSE b8
        b10 == add_value_bytes_to_batch(b9, BLOCK_CF,
                   <<prefix, BLOCK_HASH_KEY_SEGMENT>>, state.hash)
        b11 == add_value_bytes_to_batch(b10, BLOCK_CF,
                   <<prefix, BLOCK_TIME_KEY_SEGMENT>>, state.time)
        b12 == add_value_bytes_to_batch(b11, BLOCK_CF,
                   <<prefix, EPOCH_KEY_SEGMENT>>, EncodeU64(state.epoch))
        b13 == add_value_bytes_to_batch(b12, BLOCK_CF,
                   <<RESULTS_KEY_PREFIX, Raw(state.height)>>, state.results)
        b14 == add_value_bytes_to_batch(b13, BLOCK_CF,
                   <<prefix, PRED_EPOCHS_KEY_SEGMENT>>, EncodeEpochs(state.pred_epochs))
        b15 == add_value_bytes_to_batch(b14, BLOCK_CF,
                   <<prefix, ADDRESS_GEN_KEY_SEGMENT>>, state.address_gen)
    IN add_value_bytes_to_batch(b15, STATE_CF, BLOCK_HEIGHT_KEY, EncodeU64(state.height))

\* RocksDB::read_block_header: the header stored under <height>/header, if any.
read_block_header(d, height) ==
    read_value_bytes(d, BLOCK_CF, <<Raw(height), BLOCK_HEADER_KEY_SEGMENT>>)

\* RocksDB::read_merkle_tree_stores: the root and the store of the requested
\* store type (of every store type when none is requested), Base and
\* CommitData under the height prefix and the others under the epoch prefix;
\* None as soon as a root or a store entry is missing.
read_merkle_tree_stores(d, epoch, base_height, store_type) ==
    LET store_types == IF IsSome(store_type) THEN {Unwrap(store_type)} ELSE StoreTypes
        key_prefix(st) == IF st = "Base" \/ st = "CommitData"
                          THEN tree_key_prefix_with_height(st, base_height)
                          ELSE tree_key_prefix_with_epoch(st, epoch)
        root_key(st) == Append(key_prefix(st), MERKLE_TREE_ROOT_KEY_SEGMENT)
        store_key(st) == Append(key_prefix(st), MERKLE_TREE_STORE_KEY_SEGMENT)
    IN IF \E st \in store_types :
              \/ read_value_bytes(d, BLOCK_CF, root_key(st)) = None
              \/ read_value_bytes(d, BLOCK_CF, store_key(st)) = None
       THEN None
       ELSE Some([root |-> [st \in store_types |->
                               Unwrap(read_value_bytes(d, BLOCK_CF, root_key(st)))],
                  store |-> [st \in store_types |->
                               Unwrap(read_value_bytes(d, BLOCK_CF, store_key(st)))]])

\* ---------------------------------------------------------------- rollback
\* BlockHeight::prev_height: the height before, which does not exist for 0.
prev_height(h) == h - 1

\* The account keys iter_prefix yields for a CF after stripping the prefix
\* <first>/<second>/ : the keys of the CF that begin with these two segments.
StrippedKeys(d, cf, first, second) ==
    {SubSeq(k, 3, Len(k)) : k \in {x \in DOMAIN d[cf] :
        Len(x) >= 3 /\ x[1] = first /\ x[2] = second}}

\* iter_diffs_prefix(db, cf, height, None, is_old) as a map key -> value.
iter_diffs_prefix(d, cf, height, is_old) ==
    LET kind == IF is_old THEN OLD_DIFF_PREFIX ELSE NEW_DIFF_PREFIX
    IN [k \in StrippedKeys(d, cf, Raw(height), kind) |->
           d[cf][Join(<<Raw(height), kind>>, k)]]

\* An iteration that yields the `last` bucket whatever bucket is asked for.
iter_replay_bucket_last(d, bucket) ==
    {k[2] : k \in {x \in DOMAIN d[REPLAY_PROTECTION_CF] : Len(x) = 2 /\ x[1] = "last"}}

\* iter_replay_protection / iter_replay_protection_buffer: the hashes under a bucket.
iter_replay_bucket(d, bucket) ==
    {k[2] : k \in {x \in DOMAIN d[REPLAY_PROTECTION_CF] : Len(x) = 2 /\ x[1] = bucket}}

\* A delete_keys closure that finds no key.
HeightPrefixedKeysNone(d, cf, height) == {}

\* The keys the delete_keys closure of rollback deletes from a CF: those whose
\* text begins with the decimal text of the height (the scan runs from the
\* prefix to the prefix with its last byte incremented, nothing is stripped).
HeightPrefixedKeys(d, cf, height) ==
    {k \in DOMAIN d[cf] :
        \E h \in 0..(10 * MaxHeight + 9) :
            Raw(h) = k[1] /\ IsSeqPrefix(Digits(height), Digits(h))}

\* The state keys rollback reverts from their pred/ sibling, in the order of the code.
RevertedMetadataKeys ==
    <<NEXT_EPOCH_MIN_START_HEIGHT_KEY, NEXT_EPOCH_MIN_START_TIME_KEY,
      COMMIT_ONLY_DATA_KEY, UPDATE_EPOCH_BLOCKS_DELAY_KEY>>

\* A revert that copies back the first of the keys only.
revert_metadata_first_only(d, b, keys) ==
    IF keys = <<>> THEN b
    ELSE add_value_bytes_to_batch(b, STATE_CF, Head(keys),
             Unwrap(read_value_bytes(d, STATE_CF, <<PRED_KEY_PREFIX>> \o Head(keys))))

RECURSIVE revert_metadata(_, _, _)
revert_metadata(d, b, keys) ==
    IF keys = <<>> THEN b
    ELSE revert_metadata(d,
            add_value_bytes_to_batch(b, STATE_CF, Head(keys),
                Unwrap(read_value_bytes(d, STATE_CF, <<PRED_KEY_PREFIX>> \o Head(keys)))),
            Tail(keys))

\* A test that never finds the epoch changed.
epoch_changed_never(last_block) == FALSE

\* Whether rollback reverts the conversion state: the epoch changed at the last block.
epoch_changed(last_block) ==
    GetEpoch(last_block.pred_epochs, prev_height(last_block.height)) # Some(last_block.epoch)

\* A scan that stages nothing.
restore_subspace_scan_none(d, b, previous_height, last_height) == b

\* The parallel scan of rollback over the current subspace: every key gets its
\* value at the previous height, or is deleted.
restore_subspace_scan(d, b, previous_height, last_height) ==
    LET ks == DOMAIN d[SUBSPACE_CF]
        prev(k) == read_subspace_val_with_height(d, k, previous_height, last_height)
        live == {k \in ks : IsSome(prev(k))}
    IN StageAll(b, SUBSPACE_CF, [k \in live |-> Unwrap(prev(k))], ks \ live)

\* The pass of rollback over the old diffs of the last height in the diffs CF.
restore_deleted_from_diffs(d, b, last_height) ==
    LET olds == iter_diffs_prefix(d, DIFFS_CF, last_height, TRUE)
        restored == {k \in DOMAIN olds :
            ~IsSome(read_subspace_val(d, Join(<<Raw(last_height), NEW_DIFF_PREFIX>>, k)))}
    IN StageAll(b, SUBSPACE_CF, [k \in restored |-> olds[k]], {})

\* The two passes of rollback over the rollback CF at the last height.
restore_from_rollback_cf(d, b, last_height) ==
    LET olds == iter_diffs_prefix(d, ROLLBACK_CF, last_height, TRUE)
        news == iter_diffs_prefix(d, ROLLBACK_CF, last_height, FALSE)
        keys_with_old_value == DOMAIN olds
        b1 == StageAll(b, SUBSPACE_CF, olds, {})
    IN StageAll(b1, SUBSPACE_CF, EmptyMap, DOMAIN news \ keys_with_old_value)

\* The batch of rollback when the parallel scan of the subspace starts: the
\* height, the reverted metadata, the results of the last block and the
\* replay-protection buckets.
rollback_batch_before_scan(d, last_block) ==
    LET previous_height == prev_height(last_block.height)
        b1 == PutCf(EmptyMap, STATE_CF, BLOCK_HEIGHT_KEY, EncodeU64(previous_height))
        b2 == revert_metadata(d, b1, RevertedMetadataKeys)
        b3 == IF epoch_changed(last_block)
              THEN add_value_bytes_to_batch(b2, STATE_CF, CONVERSION_STATE_KEY,
                       Unwrap(read_value_bytes(d, STATE_CF,
                           <<PRED_KEY_PREFIX>> \o CONVERSION_STATE_KEY)))
              ELSE b2
        b4 == DeleteCf(b3, BLOCK_CF, <<RESULTS_KEY_PREFIX, Raw(last_block.height)>>)
        b5 == StageAll(b4, REPLAY_PROTECTION_CF, EmptyMap,
                  {<<"last", h>> : h \in iter_replay_bucket(d, "last")})
        buffered == iter_replay_bucket(d, "buffer")
    IN StageAll(b5, REPLAY_PROTECTION_CF,
           [k \in {<<"last", h>> : h \in buffered} |-> <<>>],
           {<<"all", h>> : h \in buffered})

\* What rollback stages after the scan, on the batch b the scan left: the
\* passes over the diffs of the last height and the deletes of its rows.
rollback_batch_after_scan(d, b, last_block) ==
    LET b8 == restore_deleted_from_diffs(d, b, last_block.height)
        b9 == restore_from_rollback_cf(d, b8, last_block.height)
        b10 == StageAll(b9, DIFFS_CF, EmptyMap,
                   HeightPrefixedKeys(d, DIFFS_CF, last_block.height))
    IN StageAll(b10, BLOCK_CF, EmptyMap,
           HeightPrefixedKeys(d, BLOCK_CF, last_block.height))

\* A task of the scan that writes into the batch it saw when it started,
\* without the lock: the writes other tasks made since are lost.
scan_task_write_unlocked(b, seen, key, previous_value) ==
    IF IsSome(previous_value)
    THEN PutCf(seen, SUBSPACE_CF, key, Unwrap(previous_value))
    ELSE DeleteCf(seen, SUBSPACE_CF, key)

\* The write of one task of the scan, made under the lock on the batch b:
\* a put of the value at the previous height, or a delete.
scan_task_write(b, seen, key, previous_value) ==
    IF IsSome(previous_value)
    THEN PutCf(b, SUBSPACE_CF, key, Unwrap(previous_value))
    ELSE DeleteCf(b, SUBSPACE_CF, key)

\* The batch rollback builds when it goes through.
rollback_batch(d, last_block) ==
    rollback_batch_after_scan(d,
        restore_subspace_scan(d, rollback_batch_before_scan(d, last_block),
            prev_height(last_block.height), last_block.height),
        last_block)

\* A rollback that refuses every height but the last one and the one before.
rollback_result_distance_checked(d, tendermint_block_height) ==
    LET last == read_last_block(d)
    IN IF ~IsSome(last) THEN "missing_last_block"
       ELSE IF tendermint_block_height = Unwrap(last).height THEN "no_need"
       ELSE IF tendermint_block_height # Unwrap(last).height - 1
            THEN "unsupported_rollback_distance"
       ELSE IF Unwrap(last).height = 0 THEN "height_underflow"
       ELSE IF \E i \in 1..Len(RevertedMetadataKeys) :
                  ~IsSome(read_value_bytes(d, STATE_CF,
                      <<PRED_KEY_PREFIX>> \o RevertedMetadataKeys[i]))
            THEN "unknown_key"
       ELSE IF /\ epoch_changed(Unwrap(last))
               /\ ~IsSome(read_value_bytes(d, STATE_CF,
                      <<PRED_KEY_PREFIX>> \o CONVERSION_STATE_KEY))
            THEN "unknown_key"
       ELSE "ok"

\* A rollback that does not compare the height it is given with the last one.
rollback_result_without_height_match(d, tendermint_block_height) ==
    LET last == read_last_block(d)
    IN IF ~IsSome(last) THEN "missing_last_block"
       ELSE IF Unwrap(last).height = 0 THEN "height_underflow"
       ELSE IF \E i \in 1..Len(RevertedMetadataKeys) :
                  ~IsSome(read_value_bytes(d, STATE_CF,
                      <<PRED_KEY_PREFIX>> \o RevertedMetadataKeys[i]))
            THEN "unknown_key"
       ELSE IF /\ epoch_changed(Unwrap(last))
               /\ ~IsSome(read_value_bytes(d, STATE_CF,
                      <<PRED_KEY_PREFIX>> \o CONVERSION_STATE_KEY))
            THEN "unknown_key"
       ELSE "ok"

\* RocksDB::rollback: how the call ends for the store d and the height the
\* consensus engine rolled back to.
rollback_result(d, tendermint_block_height) ==
    LET last == read_last_block(d)
    IN IF ~IsSome(last) THEN "missing_last_block"
       ELSE IF tendermint_block_height = Unwrap(last).height THEN "no_need"
       ELSE IF Unwrap(last).height = 0 THEN "height_underflow"
       ELSE IF \E i \in 1..Len(RevertedMetadataKeys) :
                  ~IsSome(read_value_bytes(d, STATE_CF,
                      <<PRED_KEY_PREFIX>> \o RevertedMetadataKeys[i]))
            THEN "unknown_key"
       ELSE IF /\ epoch_changed(Unwrap(last))
               /\ ~IsSome(read_value_bytes(d, STATE_CF,
                      <<PRED_KEY_PREFIX>> \o CONVERSION_STATE_KEY))
            THEN "unknown_key"
       ELSE "ok"

\* A rollback that executes what it staged before a pred/ key was found missing.
rollback_executing_staged(d, tendermint_block_height) ==
    IF rollback_result(d, tendermint_block_height) = "ok"
    THEN ApplyBatch(d, rollback_batch(d, Unwrap(read_last_block(d))))
    ELSE IF rollback_result(d, tendermint_block_height) = "unknown_key"
    THEN ApplyBatch(d, PutCf(EmptyMap, STATE_CF, BLOCK_HEIGHT_KEY,
             EncodeU64(prev_height(Unwrap(read_last_block(d)).height))))
    ELSE d

\* RocksDB::rollback: the store after the call.
rollback(d, tendermint_block_height) ==
    IF rollback_result(d, tendermint_block_height) = "ok"
    THEN ApplyBatch(d, rollback_batch(d, Unwrap(read_last_block(d))))
    ELSE d

\* ----------------------------------------------------- Merkle tree pruning
\* A prune that stages the delete of the root entry only.
prune_merkle_tree_store_root_only(b, store_type, epoch) ==
    DeleteCf(b, BLOCK_CF,
        Append(tree_key_prefix_with_epoch(store_type, epoch), MERKLE_TREE_ROOT_KEY_SEGMENT))

\* prune_merkle_tree_store with the deletes staged under the prefix of the
\* following epoch.
prune_merkle_tree_store_next_epoch(b, store_type, epoch) ==
    prune_merkle_tree_store_root_only(
        DeleteCf(b, BLOCK_CF, Append(tree_key_prefix_with_epoch(store_type, epoch + 1),
                                     MERKLE_TREE_STORE_KEY_SEGMENT)),
        store_type, epoch + 1)

\* prune_merkle_tree_store: deletes of the root entry and of the store entry
\* under the epoch prefix of the store type are staged.
prune_merkle_tree_store(b, store_type, epoch) ==
    LET key_prefix == tree_key_prefix_with_epoch(store_type, epoch)
        b1 == DeleteCf(b, BLOCK_CF, Append(key_prefix, MERKLE_TREE_ROOT_KEY_SEGMENT))
    IN DeleteCf(b1, BLOCK_CF, Append(key_prefix, MERKLE_TREE_STORE_KEY_SEGMENT))

\* ------------------------------------------------------- replay protection
\* replay_protection::last_key / all_key / buffer_key: the key of a hash in
\* each of the three buckets.
last_key(hash) == <<"last", hash>>
all_key(hash) == <<"all", hash>>
buffer_key(hash) == <<"buffer", hash>>

\* The keys the replay-protection operations are called with.
ReplayKeys == UNION {{last_key(h), all_key(h), buffer_key(h)} : h \in Hashes}

\* A lookup that consults the `last` bucket only.
has_replay_protection_entry_last_only(d, hash) ==
    IsSome(GetCf(d, REPLAY_PROTECTION_CF, last_key(hash)))

\* A lookup that consults the buffer as well.
has_replay_protection_entry_with_buffer(d, hash) ==
    \E key \in {last_key(hash), all_key(hash), buffer_key(hash)} :
        IsSome(GetCf(d, REPLAY_PROTECTION_CF, key))

\* has_replay_protection_entry: the loop over the `last` key and the `all` key
\* of the hash returns true at the first one found.
has_replay_protection_entry(d, hash) ==
    \E key \in {last_key(hash), all_key(hash)} :
        IsSome(GetCf(d, REPLAY_PROTECTION_CF, key))

\* write_replay_protection_entry: the key is staged with an empty value.
write_replay_protection_entry(b, key) ==
    add_value_bytes_to_batch(b, REPLAY_PROTECTION_CF, key, <<>>)

\* delete_replay_protection_entry
delete_replay_protection_entry(b, key) == DeleteCf(b, REPLAY_PROTECTION_CF, key)

\* A prune that stages the delete of every key of the column family.
prune_replay_protection_buffer_all_buckets(d, b) ==
    StageAll(b, REPLAY_PROTECTION_CF, EmptyMap, DOMAIN d[REPLAY_PROTECTION_CF])

\* prune_replay_protection_buffer: a delete is staged for every buffer key of
\* the committed store.
prune_replay_protection_buffer(d, b) ==
    StageAll(b, REPLAY_PROTECTION_CF, EmptyMap,
        {buffer_key(h) : h \in iter_replay_bucket(d, "buffer")})

\* ------------------------------------------------------------ diff pruning
\* The rows <height>/<kind>/... of a column family, as iter_prefix yields them
\* when nothing is stripped: with their full key.
DiffRowsAt(d, cf, height, kind) ==
    {k \in DOMAIN d[cf] : Len(k) >= 3 /\ k[1] = Raw(height) /\ k[2] = kind}

\* A prune that stages the deletes of the old rows only.
prune_non_persisted_diffs_old_only(d, b, height) ==
    StageAll(b, ROLLBACK_CF, EmptyMap, DiffRowsAt(d, ROLLBACK_CF, height, OLD_DIFF_PREFIX))

\* A prune that stages the deletes of the new rows only.
prune_non_persisted_diffs_new_only(d, b, height) ==
    StageAll(b, ROLLBACK_CF, EmptyMap, DiffRowsAt(d, ROLLBACK_CF, height, NEW_DIFF_PREFIX))

\* prune_non_persisted_diffs: a delete is staged for every old row and every
\* new row of the height that the committed rollback CF holds.
prune_non_persisted_diffs(d, b, height) ==
    LET b1 == StageAll(b, ROLLBACK_CF, EmptyMap,
                  DiffRowsAt(d, ROLLBACK_CF, height, OLD_DIFF_PREFIX))
    IN StageAll(b1, ROLLBACK_CF, EmptyMap,
           DiffRowsAt(d, ROLLBACK_CF, height, NEW_DIFF_PREFIX))

\* ---------------------------------------------------------------- iterators
\* The words that occur as key segments.
Words ==
    {"results", "tree", "Base", "Account", "CommitData", "root", "store", "header", "hash",
     "time", "epoch", "pred_epochs", "address_gen", "old", "new", "last", "all", "buffer",
     "tx1", "tx2", "tx3", "k1", "k2", "k3", "a", "b", "01"}

\* The bytes of the words that occur as key segments.
WordText(seg) ==
    CASE seg = "results" -> <<114, 101, 115, 117, 108, 116, 115>>
      [] seg = "tree" -> <<116, 114, 101, 101>>
      [] seg = "Base" -> <<66, 97, 115, 101>>
      [] seg = "Account" -> <<65, 99, 99, 111, 117, 110, 116>>
      [] seg = "CommitData" -> <<67, 111, 109, 109, 105, 116, 68, 97, 116, 97>>
      [] seg = "root" -> <<114, 111, 111, 116>>
      [] seg = "store" -> <<115, 116, 111, 114, 101>>
      [] seg = "header" -> <<104, 101, 97, 100, 101, 114>>
      [] seg = "hash" -> <<104, 97, 115, 104>>
      [] seg = "time" -> <<116, 105, 109, 101>>
      [] seg = "epoch" -> <<101, 112, 111, 99, 104>>
      [] seg = "pred_epochs" -> <<112, 114, 101, 100, 95, 101, 112, 111, 99, 104, 115>>
      [] seg = "address_gen" -> <<97, 100, 100, 114, 101, 115, 115, 95, 103, 101, 110>>
      [] seg = "old" -> <<111, 108, 100>>
      [] seg = "new" -> <<110, 101, 119>>
      [] seg = "last" -> <<108, 97, 115, 116>>
      [] seg = "all" -> <<97, 108, 108>>
      [] seg = "buffer" -> <<98, 117, 102, 102, 101, 114>>
      [] seg = "tx1" -> <<116, 120, 49>>
      [] seg = "tx2" -> <<116, 120, 50>>
      [] seg = "tx3" -> <<116, 120, 51>>
      [] seg = "k1" -> <<107, 49>>
      [] seg = "k2" -> <<107, 50>>
      [] seg = "k3" -> <<107, 51>>
      [] seg = "a" -> <<97>>
      [] seg = "b" -> <<98>>
      [] seg = "01" -> <<48, 49>>

\* The numbers whose decimal text occurs as a key segment.
TextNumbers == 0..(MaxDumpHeight + 1)

\* u64::to_string as bytes: the decimal digits of n in ASCII.
DecimalText(n) == [i \in 1..Len(Digits(n)) |-> 48 + Digits(n)[i]]

\* The bytes of a key segment: the decimal text of a height or an epoch, or
\* the bytes of a word.
SegmentText(seg) ==
    IF seg \in Words THEN WordText(seg)
    ELSE DecimalText(CHOOSE n \in TextNumbers : Raw(n) = seg)

\* Key::to_string: the segments joined by '/' (byte 47).
RECURSIVE KeyText(_)
KeyText(key) ==
    IF key = <<>> THEN <<>>
    ELSE IF Len(key) = 1 THEN SegmentText(key[1])
    ELSE SegmentText(key[1]) \o <<47>> \o KeyText(Tail(key))

\* The bytewise order of the store's keys: a is strictly before b.
RECURSIVE BytesLess(_, _)
BytesLess(a, b) ==
    IF b = <<>> THEN FALSE
    ELSE IF a = <<>> THEN TRUE
    ELSE a[1] < b[1] \/ (a[1] = b[1] /\ BytesLess(Tail(a), Tail(b)))

\* Whether the byte string s begins with p (str::strip_prefix succeeds).
StartsWith(s, p) == Len(p) <= Len(s) /\ SubSeq(s, 1, Len(p)) = p

\* An iterator that hands out the keys in descending order.
RECURSIVE InKeyOrderDescending(_)
InKeyOrderDescending(ks) ==
    IF ks = {} THEN <<>>
    ELSE LET m == CHOOSE x \in ks : \A y \in ks : ~BytesLess(KeyText(x), KeyText(y))
         IN <<m>> \o InKeyOrderDescending(ks \ {m})

\* The order in which a forward iterator of the store hands out a set of keys.
RECURSIVE InKeyOrder(_)
InKeyOrder(ks) ==
    IF ks = {} THEN <<>>
    ELSE LET m == CHOOSE x \in ks : \A y \in ks : ~BytesLess(KeyText(y), KeyText(x))
         IN <<m>> \o InKeyOrder(ks \ {m})

\* Read options without an upper bound.
make_iter_read_opts_unbounded(prefix) == None

\* make_iter_read_opts: the upper bound of the iteration is the prefix with
\* its last byte incremented; an empty prefix sets no bound.
make_iter_read_opts(prefix) ==
    IF prefix = <<>> THEN None
    ELSE Some([prefix EXCEPT ![Len(prefix)] = @ + 1])

\* iterator_cf_opt(cf, read_opts, From(prefix, Forward)): the keys of the
\* column family from `from` on and below the upper bound, in key order.
iterator_cf_opt(d, cf, upper_bound, from) ==
    InKeyOrder({k \in DOMAIN d[cf] :
        /\ ~BytesLess(KeyText(k), from)
        /\ IsSome(upper_bound) => BytesLess(KeyText(k), Unwrap(upper_bound))})

\* PersistentPrefixIterator::next over the rows of the inner iterator: a key
\* that begins with the stripped prefix is yielded without it, with its value;
\* any other key is skipped.
RECURSIVE PersistentPrefixIterator(_, _, _, _)
PersistentPrefixIterator(d, cf, rows, stripped_prefix) ==
    IF rows = <<>> THEN <<>>
    ELSE LET key == KeyText(Head(rows))
             rest == PersistentPrefixIterator(d, cf, Tail(rows), stripped_prefix)
         IN IF StartsWith(key, stripped_prefix)
            THEN <<[key |-> SubSeq(key, Len(stripped_prefix) + 1, Len(key)),
                    val |-> d[cf][Head(rows)]]>> \o rest
            ELSE rest

\* iter_prefix(db, cf, stripped_prefix, prefix)
iter_prefix(d, cf, stripped_prefix, prefix) ==
    LET stripped == IF IsSome(stripped_prefix) /\ Unwrap(stripped_prefix) # <<>>
                    THEN KeyText(Unwrap(stripped_prefix)) \o <<47>>
                    ELSE <<>>
        pfx == IF IsSome(prefix) /\ Unwrap(prefix) # <<>>
               THEN stripped \o KeyText(Unwrap(prefix)) \o <<47>>
               ELSE stripped
        read_opts == make_iter_read_opts(pfx)
    IN PersistentPrefixIterator(d, cf, iterator_cf_opt(d, cf, read_opts, pfx), stripped)

\* iter_subspace_prefix, which DBIter::iter_prefix calls.
iter_subspace_prefix(d, prefix) == iter_prefix(d, SUBSPACE_CF, None, prefix)

\* ---------------------------------------------------------------- dump_block
\* A dump_it that ignores the prefix and emits the whole column family.
dump_it_whole(d, cf, prefix) ==
    PersistentPrefixIterator(d, cf, iterator_cf_opt(d, cf, None, <<>>), <<>>)

\* dump_it: the rows written for a column family, in key order, each with its
\* full key text.  With a prefix the iterator starts at the prefix and ends
\* below the prefix with its last byte incremented; without one it runs over
\* the whole column family.  Nothing is stripped from the keys.
dump_it(d, cf, prefix) ==
    LET from == IF IsSome(prefix) THEN Unwrap(prefix) ELSE <<>>
        read_opts == make_iter_read_opts(from)
    IN PersistentPrefixIterator(d, cf, iterator_cf_opt(d, cf, read_opts, from), <<>>)

NoDump == [result |-> "none", diffs |-> <<>>, block |-> <<>>, subspace |-> {},
           replay |-> <<>>]

\* dump_block(out_file_path, historic, height): what is written to the file,
\* by section.  Without a stored block height the function panics before it
\* writes.  The subspace restored at another height than the last is folded
\* in parallel, so it is a set of rows.  For last_height 0 and another
\* requested height, last_height - 1 underflows: a build with overflow checks
\* panics there, after the other sections were written, and a build without
\* them compares the height with u64::MAX, which no modelled height equals.
dump_block(d, historic, height, overflow_checks) ==
    LET stored == read_u64(d, STATE_CF, BLOCK_HEIGHT_KEY)
    IN IF ~IsSome(stored) THEN [NoDump EXCEPT !.result = "panic"]
       ELSE LET last_height == Unwrap(stored)
                h == IF IsSome(height) THEN Unwrap(height) ELSE last_height
                prefix == DecimalText(h)
                current == dump_it(d, SUBSPACE_CF, None)
                underflow == h # last_height /\ last_height = 0
            IN [result |-> IF underflow /\ overflow_checks THEN "panic" ELSE "ok",
                diffs |-> IF historic THEN dump_it(d, DIFFS_CF, Some(prefix)) ELSE <<>>,
                block |-> IF historic THEN dump_it(d, BLOCK_CF, Some(prefix)) ELSE <<>>,
                subspace |->
                    IF h # last_height
                    THEN {[key |-> KeyText(k),
                           val |-> Unwrap(read_subspace_val_with_height(d, k, h, last_height))] :
                          k \in {x \in DOMAIN d[SUBSPACE_CF] :
                                    IsSome(read_subspace_val_with_height(d, x, h, last_height))}}
                    ELSE {current[i] : i \in 1..Len(current)},
                replay |->
                    IF h = last_height THEN dump_it(d, REPLAY_PROTECTION_CF, None)
                    ELSE IF ~underflow /\ h = last_height - 1
                         THEN dump_it(d, REPLAY_PROTECTION_CF, Some(WordText("all")))
                         ELSE <<>>]

\* ----------------------------------------------------------- overwrite_entry
\* How overwrite_entry ends for the store d and the optional height: with the
\* error of a store without a block height, with the panic of todo!() when the
\* desired height is not the last committed one, or normally.
overwrite_entry_result(d, height) ==
    LET last_height == read_u64(d, STATE_CF, BLOCK_HEIGHT_KEY)
    IN IF ~IsSome(last_height) THEN "db_error"
       ELSE LET desired_height == IF IsSome(height) THEN Unwrap(height)
                                  ELSE Unwrap(last_height)
            IN IF desired_height # Unwrap(last_height) THEN "panic" ELSE "ok"

\* An overwrite that stages the new value in the column family only.
overwrite_entry_without_diff(d, b, height, cf, key, new_value) ==
    IF overwrite_entry_result(d, height) # "ok" THEN b
    ELSE add_value_bytes_to_batch(b, cf, key, new_value)

\* overwrite_entry: the batch after the call.  The new value is staged in the
\* column family and, for a subspace key, in the new diff row of the last height.
overwrite_entry(d, b, height, cf, key, new_value) ==
    IF overwrite_entry_result(d, height) # "ok" THEN b
    ELSE LET last_height == Unwrap(read_u64(d, STATE_CF, BLOCK_HEIGHT_KEY))
             b1 == add_value_bytes_to_batch(b, cf, key, new_value)
         IN IF cf = SUBSPACE_CF
            THEN add_value_bytes_to_batch(b1, DIFFS_CF,
                     Join(<<Raw(last_height), NEW_DIFF_PREFIX>>, key), new_value)
            ELSE b1

\* ------------------------------------------------------- the state machine
VARIABLES
    db,       \* the committed store: column family -> (key -> bytes)
    batch,    \* the write batch of the block being built
    pc,       \* "idle", "ops" (staging the block's writes) or "ready" (block added)
    cur,      \* the block being built: its height, the number of calls staged
              \* and the heights prune_non_persisted_diffs was called with
    persist,  \* the node's diff-key filter: account key -> persist_diffs
    hist,     \* history: committed height -> subspace and last block after its
              \* commit, and the heights pruned in its batch
    last,     \* history: the last call that ended, with the store before it
    nrb,      \* history: rollback calls so far
    twin,     \* the store and batch of a second node that is given the same
              \* calls with the opposite persist_diffs
    ret,      \* history: the last call whose result was recorded, the batch it
              \* was given, the size it returned, the replay-protection keys
              \* written to the batch after it, and for a historic read the
              \* last height it was given and how it ended
    scan      \* the parallel scan of a rollback in progress: the keys whose task
              \* has not started, the tasks that read their value and wait for
              \* the lock, and the keys whose task wrote into the batch

vars == <<db, batch, pc, cur, persist, hist, last, nrb, twin, ret, scan>>

\* The account key of one segment.
AccountKey(k) == <<k>>

\* The height of the latest block committed and not rolled back, -1 if none.
Top == IF DOMAIN hist = {} THEN -1 ELSE CHOOSE h \in DOMAIN hist : \A g \in DOMAIN hist : g <= h

\* The block the consensus driver hands over for height h: block contents
\* number `tag` of that height, in a new epoch or in the epoch of the last
\* block.  Contents of different heights differ, as hashes and times do.
BlockStateWrite(d, h, tag, new_epoch) ==
    LET prev == read_last_block(d)
        epoch == IF IsSome(prev) THEN Unwrap(prev).epoch ELSE 0
        pred_epochs == IF IsSome(prev) THEN Unwrap(prev).pred_epochs ELSE <<0>>
        c == NumTags * h + tag
    IN [merkle_tree_stores |->
            [root |-> [st \in StoreTypes |-> <<c, Len(st)>>],
             store |-> [st \in StoreTypes |-> <<c, Len(st), 0>>]],
        header |-> IF c % 2 = 1 THEN None ELSE Some(<<120 + c>>),
        hash |-> <<10 + c>>,
        height |-> h,
        time |-> <<20 + c>>,
        epoch |-> IF new_epoch THEN epoch + 1 ELSE epoch,
        pred_epochs |-> IF new_epoch THEN Append(pred_epochs, h) ELSE pred_epochs,
        next_epoch_min_start_height |-> 30 + c,
        next_epoch_min_start_time |-> <<40 + c>>,
        update_epoch_blocks_delay |-> <<50 + c>>,
        address_gen |-> <<60 + c>>,
        results |-> <<70 + c>>,
        conversion_state |-> <<80 + c>>,
        ethereum_height |-> <<90 + c>>,
        eth_events_queue |-> <<100 + c>>,
        commit_only_data |-> <<110 + c>>]

\* History of the last call: for a rollback, `block` and `is_full_commit` are
\* those of the block committed before it; `commits` counts the commits that
\* directly preceded the call (the block, for a commit), up to two.
\* `before` is the rollback call made right before a rollback call, if any.
NoRollback == [height |-> 0, result |-> "none"]

NoCall == [op |-> "none", pre |-> EmptyDB, height |-> 0, commits |-> 0,
           result |-> "none", block |-> None, is_full_commit |-> FALSE,
           before |-> NoRollback]

CommitsBefore == IF last.op = "commit" THEN IF last.commits = 0 THEN 1 ELSE 2 ELSE 0

NoBlock == [height |-> 0, nops |-> 0, pruned |-> <<>>]

NoTwin == [db |-> EmptyDB, batch |-> EmptyMap]

NoScan == [target |-> 0, pending |-> {}, computed |-> EmptyMap, done |-> {}]

NoRet == [op |-> "none", key |-> <<>>, value |-> <<>>, height |-> 0,
          before |-> EmptyMap, size |-> 0, after |-> {},
          last_height |-> 0, store |-> EmptyDB, outcome |-> [result |-> "none"],
          cf |-> "none", historic |-> FALSE]

Init ==
    /\ db = EmptyDB
    /\ batch = EmptyMap
    /\ pc = "idle"
    /\ cur = NoBlock
    /\ persist \in [Keys -> BOOLEAN]
    /\ hist = EmptyMap
    /\ last = NoCall
    /\ nrb = 0
    /\ twin = NoTwin
    /\ ret = NoRet
    /\ scan = NoScan

\* RocksDB::batch(): the driver starts the batch of the next block.
BeginBlock(h) ==
    /\ pc = "idle"
    /\ h > Top /\ h <= Top + MaxGap
    /\ pc' = "ops"
    /\ batch' = EmptyMap
    /\ cur' = [NoBlock EXCEPT !.height = h]
    /\ UNCHANGED <<db, persist, hist, last, nrb, twin, ret, scan>>

\* batch_write_subspace_val on the batch of the block being built
BatchWriteSubspaceVal(k, v) ==
    /\ pc = "ops"
    /\ cur.nops < MaxOps
    /\ batch' = batch_write_subspace_val(db, batch, cur.height, AccountKey(k), v, persist[k])
    /\ cur' = [cur EXCEPT !.nops = @ + 1]
    /\ UNCHANGED <<db, pc, persist, hist, last, nrb, twin, ret, scan>>

\* batch_delete_subspace_val on the batch of the block being built
BatchDeleteSubspaceVal(k) ==
    /\ pc = "ops"
    /\ cur.nops < MaxOps
    /\ batch' = batch_delete_subspace_val(db, batch, cur.height, AccountKey(k), persist[k])
    /\ cur' = [cur EXCEPT !.nops = @ + 1]
    /\ UNCHANGED <<db, pc, persist, hist, last, nrb, twin, ret, scan>>

\* add_block_to_batch for the block being built
AddBlockToBatch(tag, new_epoch, is_full_commit) ==
    /\ pc = "ops"
    /\ LET state == BlockStateWrite(db, cur.height, tag, new_epoch)
       IN /\ batch' = add_block_to_batch(db, batch, state, is_full_commit)
          /\ last' = [NoCall EXCEPT !.op = "add_block", !.pre = db, !.height = cur.height,
                                    !.commits = CommitsBefore,
                                    !.block = Some(state),
                                    !.is_full_commit = is_full_commit]
    /\ pc' = "ready"
    /\ UNCHANGED <<db, cur, persist, hist, nrb, twin, ret, scan>>

\* exec_batch: the block's batch is written to the store.
ExecBatch ==
    /\ pc = "ready"
    /\ db' = ApplyBatch(db, batch)
    /\ batch' = EmptyMap
    /\ pc' = "idle"
    /\ hist' = [h \in DOMAIN hist \cup {cur.height} |->
                   IF h = cur.height
                   THEN [sub |-> db'[SUBSPACE_CF], blk |-> read_last_block(db'),
                         pruned |-> cur.pruned]
                   ELSE hist[h]]
    /\ last' = [last EXCEPT !.op = "commit", !.result = "ok"]
    /\ UNCHANGED <<cur, persist, nrb, twin, ret, scan>>

\* rollback(tendermint_block_height), called between blocks
Rollback(t) ==
    /\ pc = "idle"
    /\ nrb < MaxRollbacks
    /\ db' = rollback(db, t)
    /\ last' = [NoCall EXCEPT !.op = "rollback", !.pre = db, !.height = t,
                              !.commits = CommitsBefore,
                              !.result = rollback_result(db, t),
                              !.block = IF last.op = "commit" THEN last.block ELSE None,
                              !.is_full_commit = last.op = "commit" /\ last.is_full_commit,
                              !.before = IF last.op = "rollback"
                                         THEN [height |-> last.height,
                                               result |-> last.result]
                                         ELSE NoRollback]
    /\ hist' = IF rollback_result(db, t) = "ok"
               THEN [h \in {g \in DOMAIN hist : g < Unwrap(read_last_block(db)).height} |->
                        hist[h]]
               ELSE hist
    /\ nrb' = nrb + 1
    /\ UNCHANGED <<batch, pc, cur, persist, twin, ret, scan>>

\* Blocks whose subspace writes vary freely; every block starts an epoch and
\* is a full commit, and the consensus engine rolls back by one block.
Next ==
    \/ \E h \in Heights : BeginBlock(h)
    \/ \E k \in Keys, v \in Values : BatchWriteSubspaceVal(k, v)
    \/ \E k \in Keys : BatchDeleteSubspaceVal(k)
    \/ AddBlockToBatch(1, TRUE, TRUE)
    \/ ExecBatch
    \/ \E t \in Heights :
          /\ BLOCK_HEIGHT_KEY \in DOMAIN db[STATE_CF]
          /\ t = StoredHeight(db) - 1
          /\ Rollback(t)

Spec == Init /\ [][Next]_vars

\* Blocks whose contents, epoch change and commit kind vary freely, without
\* subspace writes.
NextBlocks ==
    \/ \E h \in Heights : BeginBlock(h)
    \/ \E tag \in Tags, new_epoch \in BOOLEAN, is_full_commit \in BOOLEAN :
          AddBlockToBatch(tag, new_epoch, is_full_commit)
    \/ ExecBatch
    \/ \E t \in Heights : Rollback(t)

\* No subspace key is written, so the diff-key filter is immaterial.
InitBlocks == Init /\ \A k \in Keys : persist[k]

SpecBlocks == InitBlocks /\ [][NextBlocks]_vars

\* write_replay_protection_entry on the batch of the block being built
WriteReplayProtectionEntry(key) ==
    /\ pc = "ops"
    /\ cur.nops < MaxOps
    /\ batch' = write_replay_protection_entry(batch, key)
    /\ cur' = [cur EXCEPT !.nops = @ + 1]
    /\ UNCHANGED <<db, pc, persist, hist, last, nrb, twin, ret, scan>>

\* delete_replay_protection_entry on the batch of the block being built
DeleteReplayProtectionEntry(key) ==
    /\ pc = "ops"
    /\ cur.nops < MaxOps
    /\ batch' = delete_replay_protection_entry(batch, key)
    /\ cur' = [cur EXCEPT !.nops = @ + 1]
    /\ UNCHANGED <<db, pc, persist, hist, last, nrb, twin, ret, scan>>

\* prune_replay_protection_buffer on the batch of the block being built
PruneReplayProtectionBuffer ==
    /\ pc = "ops"
    /\ cur.nops < MaxOps
    /\ batch' = prune_replay_protection_buffer(db, batch)
    /\ cur' = [cur EXCEPT !.nops = @ + 1]
    /\ UNCHANGED <<db, pc, persist, hist, last, nrb, twin, ret, scan>>

\* Blocks that write, delete and prune replay-protection entries; every block
\* starts an epoch and is a full commit, heights are consecutive and the
\* consensus engine rolls back by one block.
NextReplay ==
    \/ \E h \in Heights : h = Top + 1 /\ BeginBlock(h)
    \/ \E key \in ReplayKeys : WriteReplayProtectionEntry(key)
    \/ \E key \in ReplayKeys : DeleteReplayProtectionEntry(key)
    \/ PruneReplayProtectionBuffer
    \/ AddBlockToBatch(1, TRUE, TRUE)
    \/ ExecBatch
    \/ \E t \in Heights :
          /\ BLOCK_HEIGHT_KEY \in DOMAIN db[STATE_CF]
          /\ t = StoredHeight(db) - 1
          /\ Rollback(t)

SpecReplay == InitBlocks /\ [][NextReplay]_vars

\* prune_non_persisted_diffs(height) on the batch of the block being built
PruneNonPersistedDiffs(height) ==
    /\ pc = "ops"
    /\ cur.nops < MaxOps
    /\ batch' = prune_non_persisted_diffs(db, batch, height)
    /\ cur' = [cur EXCEPT !.nops = @ + 1, !.pruned = Append(@, height)]
    /\ UNCHANGED <<db, pc, persist, hist, last, nrb, twin, ret, scan>>

\* Blocks that write and delete subspace keys and prune the non-persisted
\* diffs of a height; every block starts an epoch and is a full commit, and
\* nothing is rolled back.
NextDiffs ==
    \/ \E h \in Heights : BeginBlock(h)
    \/ \E k \in Keys, v \in Values : BatchWriteSubspaceVal(k, v)
    \/ \E k \in Keys : BatchDeleteSubspaceVal(k)
    \/ \E h \in Heights : PruneNonPersistedDiffs(h)
    \/ AddBlockToBatch(1, TRUE, TRUE)
    \/ ExecBatch

SpecDiffs == Init /\ [][NextDiffs]_vars

\* The calls of a block made on both nodes: the node of `db`, whose diff-key
\* filter is `persist`, and the second node, whose filter is its opposite.
BothBeginBlock(h) ==
    /\ pc = "idle"
    /\ h = Top + 1
    /\ pc' = "ops"
    /\ batch' = EmptyMap
    /\ twin' = [twin EXCEPT !.batch = EmptyMap]
    /\ cur' = [NoBlock EXCEPT !.height = h]
    /\ UNCHANGED <<db, persist, hist, last, nrb, ret, scan>>

BothBatchWriteSubspaceVal(k, v) ==
    /\ pc = "ops"
    /\ cur.nops < MaxOps
    /\ batch' = batch_write_subspace_val(db, batch, cur.height, AccountKey(k), v, persist[k])
    /\ twin' = [twin EXCEPT !.batch = batch_write_subspace_val(twin.db, twin.batch,
                                          cur.height, AccountKey(k), v, ~persist[k])]
    /\ cur' = [cur EXCEPT !.nops = @ + 1]
    /\ UNCHANGED <<db, pc, persist, hist, last, nrb, ret, scan>>

BothBatchDeleteSubspaceVal(k) ==
    /\ pc = "ops"
    /\ cur.nops < MaxOps
    /\ batch' = batch_delete_subspace_val(db, batch, cur.height, AccountKey(k), persist[k])
    /\ twin' = [twin EXCEPT !.batch = batch_delete_subspace_val(twin.db, twin.batch,
                                          cur.height, AccountKey(k), ~persist[k])]
    /\ cur' = [cur EXCEPT !.nops = @ + 1]
    /\ UNCHANGED <<db, pc, persist, hist, last, nrb, ret, scan>>

BothWriteReplayProtectionEntry(key) ==
    /\ pc = "ops"
    /\ cur.nops < MaxOps
    /\ batch' = write_replay_protection_entry(batch, key)
    /\ twin' = [twin EXCEPT !.batch = write_replay_protection_entry(twin.batch, key)]
    /\ cur' = [cur EXCEPT !.nops = @ + 1]
    /\ UNCHANGED <<db, pc, persist, hist, last, nrb, ret, scan>>

BothAddBlockToBatch(tag, new_epoch, is_full_commit) ==
    /\ pc = "ops"
    /\ LET state == BlockStateWrite(db, cur.height, tag, new_epoch)
       IN /\ batch' = add_block_to_batch(db, batch, state, is_full_commit)
          /\ twin' = [twin EXCEPT !.batch = add_block_to_batch(twin.db, twin.batch,
                           BlockStateWrite(twin.db, cur.height, tag, new_epoch),
                           is_full_commit)]
          /\ last' = [NoCall EXCEPT !.op = "add_block", !.pre = db, !.height = cur.height,
                                    !.commits = CommitsBefore,
                                    !.block = Some(state),
                                    !.is_full_commit = is_full_commit]
    /\ pc' = "ready"
    /\ UNCHANGED <<db, cur, persist, hist, nrb, ret, scan>>

BothExecBatch ==
    /\ pc = "ready"
    /\ db' = ApplyBatch(db, batch)
    /\ batch' = EmptyMap
    /\ twin' = [db |-> ApplyBatch(twin.db, twin.batch), batch |-> EmptyMap]
    /\ pc' = "idle"
    /\ hist' = [h \in DOMAIN hist \cup {cur.height} |->
                   IF h = cur.height
                   THEN [sub |-> db'[SUBSPACE_CF], blk |-> read_last_block(db'),
                         pruned |-> cur.pruned]
                   ELSE hist[h]]
    /\ last' = [last EXCEPT !.op = "commit", !.result = "ok"]
    /\ UNCHANGED <<cur, persist, nrb, ret, scan>>

BothRollback(t) ==
    /\ pc = "idle"
    /\ nrb < MaxRollbacks
    /\ db' = rollback(db, t)
    /\ twin' = [twin EXCEPT !.db = rollback(twin.db, t)]
    /\ last' = [NoCall EXCEPT !.op = "rollback", !.pre = db, !.height = t,
                              !.commits = CommitsBefore,
                              !.result = rollback_result(db, t),
                              !.block = IF last.op = "commit" THEN last.block ELSE None,
                              !.is_full_commit = last.op = "commit" /\ last.is_full_commit,
                              !.before = IF last.op = "rollback"
                                         THEN [height |-> last.height,
                                               result |-> last.result]
                                         ELSE NoRollback]
    /\ hist' = IF rollback_result(db, t) = "ok"
               THEN [h \in {g \in DOMAIN hist : g < Unwrap(read_last_block(db)).height} |->
                        hist[h]]
               ELSE hist
    /\ nrb' = nrb + 1
    /\ UNCHANGED <<batch, pc, cur, persist, ret, scan>>

\* The same blocks of subspace writes and deletes and replay-protection
\* writes on both nodes; heights are consecutive, every block starts an epoch
\* and is a full commit, and the consensus engine rolls back by one block.
NextTwin ==
    \/ \E h \in Heights : BothBeginBlock(h)
    \/ \E k \in Keys, v \in Values : BothBatchWriteSubspaceVal(k, v)
    \/ \E k \in Keys : BothBatchDeleteSubspaceVal(k)
    \/ BothWriteReplayProtectionEntry(buffer_key(HashNames[1]))
    \/ BothAddBlockToBatch(1, TRUE, TRUE)
    \/ BothExecBatch
    \/ \E t \in Heights :
          /\ BLOCK_HEIGHT_KEY \in DOMAIN db[STATE_CF]
          /\ t = StoredHeight(db) - 1
          /\ BothRollback(t)

\* The first node persists the diffs of every key, the second of none.
SpecTwin == InitBlocks /\ [][NextTwin]_vars

\* batch_write_subspace_val of a two-segment key on the batch of the block
\* being built, with its diffs persisted as in test_prefix_iter
BatchWriteSubspaceKey(key, v) ==
    /\ pc = "ops"
    /\ cur.nops < MaxOps
    /\ batch' = batch_write_subspace_val(db, batch, cur.height, key, v, TRUE)
    /\ cur' = [cur EXCEPT !.nops = @ + 1]
    /\ UNCHANGED <<db, pc, persist, hist, last, nrb, twin, ret, scan>>

\* batch_delete_subspace_val of a two-segment key on the batch of the block
\* being built
BatchDeleteSubspaceKey(key) ==
    /\ pc = "ops"
    /\ cur.nops < MaxOps
    /\ batch' = batch_delete_subspace_val(db, batch, cur.height, key, TRUE)
    /\ cur' = [cur EXCEPT !.nops = @ + 1]
    /\ UNCHANGED <<db, pc, persist, hist, last, nrb, twin, ret, scan>>

\* Blocks that write and delete the iterated keys; heights are consecutive
\* and stay below MaxHeight, every block starts an epoch and is a full commit,
\* and the consensus engine rolls back by one block.
NextIter ==
    \/ \E h \in Heights : h = Top + 1 /\ h < MaxHeight /\ BeginBlock(h)
    \/ \E key \in IterKeys : BatchWriteSubspaceKey(key, <<0>>)
    \/ \E key \in IterKeys : BatchDeleteSubspaceKey(key)
    \/ AddBlockToBatch(1, TRUE, TRUE)
    \/ ExecBatch
    \/ \E t \in Heights :
          /\ BLOCK_HEIGHT_KEY \in DOMAIN db[STATE_CF]
          /\ t = StoredHeight(db) - 1
          /\ Rollback(t)

SpecIter == InitBlocks /\ [][NextIter]_vars

\* prune_merkle_tree_store(store_type, epoch) on the batch of the block being built
PruneMerkleTreeStore(store_type, epoch) ==
    /\ pc = "ops"
    /\ cur.nops < MaxOps
    /\ batch' = prune_merkle_tree_store(batch, store_type, epoch)
    /\ cur' = [cur EXCEPT !.nops = @ + 1]
    /\ UNCHANGED <<db, pc, persist, hist, last, nrb, twin, ret, scan>>

\* Blocks that prune Merkle tree stores; heights are consecutive and stay
\* below MaxHeight, the epoch change and the commit kind vary freely, and the
\* consensus engine rolls back by one block.
NextMerkle ==
    \/ \E h \in Heights : h = Top + 1 /\ h < MaxHeight /\ BeginBlock(h)
    \/ \E st \in StoreTypes, epoch \in Heights : PruneMerkleTreeStore(st, epoch)
    \/ \E new_epoch \in BOOLEAN, is_full_commit \in BOOLEAN :
          AddBlockToBatch(1, new_epoch, is_full_commit)
    \/ ExecBatch
    \/ \E t \in Heights :
          /\ BLOCK_HEIGHT_KEY \in DOMAIN db[STATE_CF]
          /\ t = StoredHeight(db) - 1
          /\ Rollback(t)

SpecMerkle == InitBlocks /\ [][NextMerkle]_vars

\* The block height the state CF records, 0 when it records none.
RecordedHeightOr0(d) ==
    IF BLOCK_HEIGHT_KEY \in DOMAIN d[STATE_CF] THEN StoredHeight(d) ELSE 0

\* The entries a migration overwrites: a subspace key and a replay-protection key.
OverwriteTargets ==
    {<<SUBSPACE_CF, AccountKey(KeyNames[1])>>, <<REPLAY_PROTECTION_CF, last_key(HashNames[1])>>}

\* overwrite_entry(height, cf, key, new_value) on the fresh batch of a
\* migration, between blocks.  A call that fails or panics stages nothing.
OverwriteEntry(height, cf, key, new_value) ==
    /\ pc = "idle"
    /\ batch' = overwrite_entry(db, EmptyMap, height, cf, key, new_value)
    /\ pc' = IF overwrite_entry_result(db, height) = "ok" THEN "migrate" ELSE "idle"
    /\ last' = [NoCall EXCEPT !.op = "overwrite_entry", !.pre = db,
                              !.height = IF IsSome(height) THEN Unwrap(height)
                                         ELSE RecordedHeightOr0(db),
                              !.result = overwrite_entry_result(db, height)]
    /\ ret' = [NoRet EXCEPT !.op = "overwrite_entry", !.cf = cf, !.key = key,
                            !.value = new_value]
    /\ UNCHANGED <<db, cur, persist, hist, nrb, twin, scan>>

\* exec_batch of the migration's batch
ExecMigration ==
    /\ pc = "migrate"
    /\ db' = ApplyBatch(db, batch)
    /\ batch' = EmptyMap
    /\ pc' = "idle"
    /\ last' = [last EXCEPT !.op = "migrated"]
    /\ UNCHANGED <<cur, persist, hist, nrb, twin, ret, scan>>

\* Blocks that write a key and migrations between them; heights are
\* consecutive, every block starts an epoch and is a full commit.
NextOverwrite ==
    \/ \E h \in Heights : h = Top + 1 /\ BeginBlock(h)
    \/ \E k \in Keys, v \in Values : BatchWriteSubspaceVal(k, v)
    \/ AddBlockToBatch(1, TRUE, TRUE)
    \/ ExecBatch
    \/ \E height \in {None} \cup {Some(h) : h \in Heights}, target \in OverwriteTargets,
          new_value \in Values :
          OverwriteEntry(height, target[1], target[2], new_value)
    \/ ExecMigration

SpecOverwrite == InitBlocks /\ [][NextOverwrite]_vars

\* prune_merkle_tree_store(store_type, epoch) on a fresh batch between blocks;
\* the batch is executed on its own.
PruneMerkleTreeStoreBatch(store_type, epoch) ==
    /\ pc = "idle"
    /\ batch' = prune_merkle_tree_store(EmptyMap, store_type, epoch)
    /\ pc' = "migrate"
    /\ last' = [NoCall EXCEPT !.op = "prune_merkle_tree_store", !.pre = db,
                              !.height = epoch]
    /\ ret' = [NoRet EXCEPT !.op = "prune_merkle_tree_store", !.key = <<store_type>>,
                            !.height = epoch]
    /\ UNCHANGED <<db, cur, persist, hist, nrb, twin, scan>>

\* Blocks of consecutive heights below MaxHeight whose epoch change and commit
\* kind vary freely, and batches between them that prune one Merkle tree store.
NextPrune ==
    \/ \E h \in Heights : h = Top + 1 /\ h < MaxHeight /\ BeginBlock(h)
    \/ \E new_epoch \in BOOLEAN, is_full_commit \in BOOLEAN :
          AddBlockToBatch(1, new_epoch, is_full_commit)
    \/ ExecBatch
    \/ \E st \in StoreTypes, epoch \in 0..(MaxHeight + 1) : PruneMerkleTreeStoreBatch(st, epoch)
    \/ ExecMigration

SpecPrune == InitBlocks /\ [][NextPrune]_vars

\* dump_block(out_file_path, historic, height), called between blocks on a
\* build with or without overflow checks; the store is left alone.
DumpBlock(historic, height, overflow_checks) ==
    /\ pc = "idle"
    /\ ret' = [NoRet EXCEPT !.op = "dump_block", !.historic = historic,
                            !.height = IF IsSome(height) THEN Unwrap(height)
                                       ELSE RecordedHeightOr0(db),
                            !.last_height = RecordedHeightOr0(db),
                            !.store = db,
                            !.outcome = dump_block(db, historic, height, overflow_checks)]
    /\ UNCHANGED <<db, batch, pc, cur, persist, hist, last, nrb, twin, scan>>

\* Blocks that write a replay-protection entry to any of the three buckets,
\* and dumps between them; heights are consecutive and stay below MaxHeight,
\* every block starts an epoch and is a full commit.
NextDump ==
    \/ \E h \in Heights : h = Top + 1 /\ h < MaxHeight /\ BeginBlock(h)
    \/ \E bucket \in {"last", "all", "buffer"} :
          WriteReplayProtectionEntry(<<bucket, HashNames[1]>>)
    \/ AddBlockToBatch(1, TRUE, TRUE)
    \/ ExecBatch
    \/ \E historic \in BOOLEAN, height \in {None} \cup {Some(h) : h \in Heights},
          overflow_checks \in BOOLEAN :
          DumpBlock(historic, height, overflow_checks)

SpecDump == InitBlocks /\ [][NextDump]_vars

\* A chain of blocks of consecutive heights up to MaxDumpHeight, each of which
\* writes one subspace key once with its diffs persisted, and historic dumps
\* between the blocks; every block starts an epoch and is a full commit.
NextDumpHistoric ==
    \/ \E h \in 0..MaxDumpHeight : h = Top + 1 /\ BeginBlock(h)
    \/ cur.nops = 0 /\ BatchWriteSubspaceKey(IterKeyNames[1], <<0>>)
    \/ cur.nops = 1 /\ AddBlockToBatch(1, TRUE, TRUE)
    \/ ExecBatch
    \/ \E h \in Heights : DumpBlock(TRUE, Some(h), FALSE)

SpecDumpHistoric == InitBlocks /\ [][NextDumpHistoric]_vars

\* rollback(tendermint_block_height) in which a task of the parallel scan over
\* the subspace fails on a read of the store: try_for_each returns the error
\* and rollback returns it before exec_batch.
RollbackScanFails(t) ==
    /\ pc = "idle"
    /\ nrb < MaxRollbacks
    /\ rollback_result(db, t) = "ok"
    /\ DOMAIN db[SUBSPACE_CF] # {}
    /\ db' = db
    /\ last' = [NoCall EXCEPT !.op = "rollback", !.pre = db, !.height = t,
                              !.commits = CommitsBefore,
                              !.result = "scan_error"]
    /\ nrb' = nrb + 1
    /\ UNCHANGED <<batch, pc, cur, persist, hist, twin, ret, scan>>

\* Blocks with subspace writes at any height above the last, and rollbacks to
\* any height that go through, are refused or fail in the scan.
NextRollbackFail ==
    \/ \E h \in Heights : BeginBlock(h)
    \/ \E k \in Keys, v \in Values : BatchWriteSubspaceVal(k, v)
    \/ AddBlockToBatch(1, TRUE, TRUE)
    \/ ExecBatch
    \/ \E t \in Heights : Rollback(t)
    \/ \E t \in Heights : RollbackScanFails(t)

SpecRollbackFail == InitBlocks /\ [][NextRollbackFail]_vars

\* batch_write_subspace_val and batch_delete_subspace_val with their result
\* kept: the call, the batch it was given and the size it returned.
BatchWriteSubspaceValResult(k, v) ==
    /\ pc = "ops"
    /\ cur.nops < MaxOps
    /\ batch' = batch_write_subspace_val(db, batch, cur.height, AccountKey(k), v, persist[k])
    /\ ret' = [NoRet EXCEPT !.op = "write", !.key = AccountKey(k), !.value = v,
                            !.height = cur.height, !.before = batch,
                            !.size = batch_write_subspace_val_ret(db, AccountKey(k), v)]
    /\ cur' = [cur EXCEPT !.nops = @ + 1]
    /\ UNCHANGED <<db, pc, persist, hist, last, nrb, twin, scan>>

BatchDeleteSubspaceValResult(k) ==
    /\ pc = "ops"
    /\ cur.nops < MaxOps
    /\ batch' = batch_delete_subspace_val(db, batch, cur.height, AccountKey(k), persist[k])
    /\ ret' = [NoRet EXCEPT !.op = "delete", !.key = AccountKey(k),
                            !.height = cur.height, !.before = batch,
                            !.size = batch_delete_subspace_val_ret(db, AccountKey(k))]
    /\ cur' = [cur EXCEPT !.nops = @ + 1]
    /\ UNCHANGED <<db, pc, persist, hist, last, nrb, twin, scan>>

\* Blocks of consecutive heights whose subspace calls keep their result;
\* every block starts an epoch and is a full commit, nothing is rolled back.
NextSubspace ==
    \/ \E h \in Heights : h = Top + 1 /\ BeginBlock(h)
    \/ \E k \in Keys, v \in Values : BatchWriteSubspaceValResult(k, v)
    \/ \E k \in Keys : BatchDeleteSubspaceValResult(k)
    \/ AddBlockToBatch(1, TRUE, TRUE)
    \/ ExecBatch

SpecSubspace == Init /\ [][NextSubspace]_vars

\* prune_replay_protection_buffer with the call kept: the batch it was given
\* and, from then on, the keys written to the batch of the same block.
PruneReplayProtectionBufferCall ==
    /\ pc = "ops"
    /\ cur.nops < MaxOps
    /\ batch' = prune_replay_protection_buffer(db, batch)
    /\ ret' = [NoRet EXCEPT !.op = "prune_buffer", !.height = cur.height, !.before = batch]
    /\ cur' = [cur EXCEPT !.nops = @ + 1]
    /\ UNCHANGED <<db, pc, persist, hist, last, nrb, twin, scan>>

WriteReplayProtectionEntryCall(key) ==
    /\ pc = "ops"
    /\ cur.nops < MaxOps
    /\ batch' = write_replay_protection_entry(batch, key)
    /\ ret' = IF ret.op = "prune_buffer" /\ ret.height = cur.height
              THEN [ret EXCEPT !.after = @ \cup {key}]
              ELSE ret
    /\ cur' = [cur EXCEPT !.nops = @ + 1]
    /\ UNCHANGED <<db, pc, persist, hist, last, nrb, twin, scan>>

\* Blocks of consecutive heights that write replay-protection entries and
\* prune the buffer; every block starts an epoch and is a full commit.
NextBuffer ==
    \/ \E h \in Heights : h = Top + 1 /\ BeginBlock(h)
    \/ \E key \in ReplayKeys : WriteReplayProtectionEntryCall(key)
    \/ PruneReplayProtectionBufferCall
    \/ AddBlockToBatch(1, TRUE, TRUE)
    \/ ExecBatch

SpecBuffer == InitBlocks /\ [][NextBuffer]_vars

\* batch_write_subspace_val of a two-segment key with the persist_diffs the
\* caller passes.
BatchWriteSubspaceKeyDiffs(key, v, persist_diffs) ==
    /\ pc = "ops"
    /\ cur.nops < MaxOps
    /\ batch' = batch_write_subspace_val(db, batch, cur.height, key, v, persist_diffs)
    /\ cur' = [cur EXCEPT !.nops = @ + 1]
    /\ UNCHANGED <<db, pc, persist, hist, last, nrb, twin, ret, scan>>

\* rollback up to the parallel scan: the call goes through, the batch holds
\* what is staged before the scan, and one task per key of the current
\* subspace is to run.
RollbackBeginScan(t) ==
    /\ pc = "idle"
    /\ nrb < MaxRollbacks
    /\ rollback_result(db, t) = "ok"
    /\ pc' = "scan"
    /\ batch' = rollback_batch_before_scan(db, Unwrap(read_last_block(db)))
    /\ scan' = [NoScan EXCEPT !.target = t, !.pending = DOMAIN db[SUBSPACE_CF]]
    /\ UNCHANGED <<db, cur, persist, hist, last, nrb, twin, ret>>

\* A task of the scan reads the value of its key at the previous height.
ScanTaskRead(key) ==
    /\ pc = "scan"
    /\ key \in scan.pending
    /\ LET last_block == Unwrap(read_last_block(db))
           previous_value == read_subspace_val_with_height(db, key,
                                 prev_height(last_block.height), last_block.height)
       IN scan' = [scan EXCEPT
                      !.pending = @ \ {key},
                      !.computed = [k \in DOMAIN @ \cup {key} |->
                                       IF k = key
                                       THEN [value |-> previous_value, seen |-> batch]
                                       ELSE @[k]]]
    /\ UNCHANGED <<db, batch, pc, cur, persist, hist, last, nrb, twin, ret>>

\* A task of the scan takes the lock and stages its put or delete.
ScanTaskWrite(key) ==
    /\ pc = "scan"
    /\ key \in DOMAIN scan.computed
    /\ batch' = scan_task_write(batch, scan.computed[key].seen, key,
                     scan.computed[key].value)
    /\ scan' = [scan EXCEPT
                   !.computed = [k \in DOMAIN @ \ {key} |-> @[k]],
                   !.done = @ \cup {key}]
    /\ UNCHANGED <<db, pc, cur, persist, hist, last, nrb, twin, ret>>

\* rollback after the scan: every task has written, the later passes are
\* staged on the batch and the batch is executed.
RollbackEndScan ==
    /\ pc = "scan"
    /\ scan.pending = {} /\ DOMAIN scan.computed = {}
    /\ db' = ApplyBatch(db, rollback_batch_after_scan(db, batch,
                 Unwrap(read_last_block(db))))
    /\ batch' = EmptyMap
    /\ pc' = "idle"
    /\ last' = [NoCall EXCEPT !.op = "rollback", !.pre = db, !.height = scan.target,
                              !.commits = CommitsBefore,
                              !.result = "ok",
                              !.block = IF last.op = "commit" THEN last.block ELSE None,
                              !.is_full_commit = last.op = "commit" /\ last.is_full_commit]
    /\ hist' = [h \in {g \in DOMAIN hist : g < Unwrap(read_last_block(db)).height} |->
                    hist[h]]
    /\ nrb' = nrb + 1
    /\ scan' = [NoScan EXCEPT !.done = scan.done]
    /\ UNCHANGED <<cur, persist, twin, ret>>

\* The keys the blocks of the scanned store write.
ScanKeys == {IterKeyNames[1], IterKeyNames[2]}

\* Blocks of consecutive heights that write two-segment keys with either
\* persist_diffs, and then a rollback by one block whose scan tasks run in any
\* order.
NextScan ==
    \/ \E h \in Heights : h = Top + 1 /\ h < MaxHeight /\ nrb = 0 /\ BeginBlock(h)
    \/ \E key \in ScanKeys, v \in Values, persist_diffs \in BOOLEAN :
          BatchWriteSubspaceKeyDiffs(key, v, persist_diffs)
    \/ \E key \in ScanKeys : BatchDeleteSubspaceKey(key)
    \/ AddBlockToBatch(1, TRUE, TRUE)
    \/ ExecBatch
    \/ \E t \in Heights :
          /\ BLOCK_HEIGHT_KEY \in DOMAIN db[STATE_CF]
          /\ t = StoredHeight(db) - 1
          /\ RollbackBeginScan(t)
    \/ \E key \in ScanKeys : ScanTaskRead(key)
    \/ \E key \in ScanKeys : ScanTaskWrite(key)
    \/ RollbackEndScan

SpecScan == InitBlocks /\ [][NextScan]_vars

\* read_subspace_val_with_height(key, height, last_height) on the committed
\* store, between blocks, in a build with or without overflow checks.
ReadSubspaceValWithHeight(k, height, last_height, overflow_checks) ==
    /\ pc = "idle"
    /\ ret' = [NoRet EXCEPT
                  !.op = "read", !.key = AccountKey(k), !.height = height,
                  !.last_height = last_height, !.store = db,
                  !.outcome = read_subspace_val_with_height_outcome(db, AccountKey(k),
                                  height, last_height, overflow_checks)]
    /\ UNCHANGED <<db, batch, pc, cur, persist, hist, last, nrb, twin, scan>>

\* Blocks of consecutive heights that write and delete a key whose diffs are
\* persisted, and historic reads between them at any height, with any last
\* height.
NextHistoric ==
    \/ \E h \in Heights : h = Top + 1 /\ BeginBlock(h)
    \/ \E k \in Keys, v \in Values : BatchWriteSubspaceVal(k, v)
    \/ \E k \in Keys : BatchDeleteSubspaceVal(k)
    \/ AddBlockToBatch(1, TRUE, TRUE)
    \/ ExecBatch
    \/ \E k \in Keys, height \in 0..MaxU64, last_height \in 0..MaxU64,
          overflow_checks \in BOOLEAN :
          ReadSubspaceValWithHeight(k, height, last_height, overflow_checks)

SpecHistoric == InitBlocks /\ [][NextHistoric]_vars

\* ------------------------------------------------------------- properties
\* The last height the store records, -1 when read_last_block finds no block.
RecordedHeight(d) ==
    IF IsSome(read_last_block(d)) THEN Unwrap(read_last_block(d)).height ELSE -1

\* The value of account key k after the last commit at a height <= h that
\* has not been rolled back, None when there is no such commit or k was absent.
ValueAt(k, h) ==
    LET below == {g \in DOMAIN hist : g <= h}
    IN IF below = {} THEN None
       ELSE LET g == CHOOSE x \in below : \A y \in below : y <= x
            IN IF AccountKey(k) \in DOMAIN hist[g].sub
               THEN Some(hist[g].sub[AccountKey(k)]) ELSE None

\* The diff row <height>/<kind>/<key> of a column family.
DiffRow(d, cf, height, kind, key) == GetCf(d, cf, Join(<<Raw(height), kind>>, key))

\* The last call was a successful rollback from a block that was committed
\* right after the block one height below it.
RolledBackOneBlock ==
    /\ last.op = "rollback" /\ last.result = "ok" /\ last.commits = 2
    /\ (RecordedHeight(last.pre) - 1) \in DOMAIN hist

\* C1: after block L-1 and then block L are committed, a successful
\* rollback(L-1) leaves in the subspace, for every key, exactly the value the
\* key had right after the commit of L-1, whether its diffs are persisted or not.
C1_RollbackRestoresSubspace ==
    (RolledBackOneBlock /\ last.height = RecordedHeight(last.pre) - 1)
        => db[SUBSPACE_CF] = hist[last.height].sub

\* C5: for every key whose diffs are persisted and every height H <= L, L the
\* last committed height, read_subspace_val_with_height(K, H, L) is the value
\* K had after the last commit at a height <= H, None if it had none.
C5_ReadAtHeight ==
    (Top >= 0 /\ RecordedHeight(db) = Top) =>
        \A k \in Keys : persist[k] =>
            \A h \in 0..Top :
                read_subspace_val_with_height(db, AccountKey(k), h, Top) = ValueAt(k, h)

\* C6: after block commits ending at height H, for every key whose diffs are
\* persisted, read_subspace_val_with_height(K, H, H) equals read_subspace_val(K).
C6_ReadAtLastHeight ==
    (last.op = "commit" /\ nrb = 0) =>
        \A k \in Keys : persist[k] =>
            read_subspace_val_with_height(db, AccountKey(k), last.height, last.height)
                = read_subspace_val(db, AccountKey(k))

\* C10: for the block just committed at height H and every key K whose
\* subspace value the block changed from A to B (either may be absent), the
\* row H/old/K holds A and the row H/new/K holds B, a row being absent when the
\* value is, whatever calls on K the batch contained; the rows are in the
\* diffs CF when the key's diffs are persisted and in the rollback CF
\* otherwise, never in the other one.
C10_DiffPairing ==
    last.op = "commit" =>
        \A k \in Keys :
            LET key == AccountKey(k)
                before == GetCf(last.pre, SUBSPACE_CF, key)
                after == GetCf(db, SUBSPACE_CF, key)
                cf == IF persist[k] THEN DIFFS_CF ELSE ROLLBACK_CF
                other == IF persist[k] THEN ROLLBACK_CF ELSE DIFFS_CF
            IN before # after =>
                /\ DiffRow(db, cf, last.height, OLD_DIFF_PREFIX, key) = before
                /\ DiffRow(db, cf, last.height, NEW_DIFF_PREFIX, key) = after
                /\ DiffRow(db, other, last.height, OLD_DIFF_PREFIX, key) = None
                /\ DiffRow(db, other, last.height, NEW_DIFF_PREFIX, key) = None

\* The last call was rollback(T) on a store whose last block was readable.
RollbackCalled == last.op = "rollback" /\ RecordedHeight(last.pre) >= 0

\* The fields the block writer saves with their predecessor or under the
\* height, equal in two records.
SameTrackedFields(r, s) ==
    /\ r.hash = s.hash
    /\ r.time = s.time
    /\ r.epoch = s.epoch
    /\ r.pred_epochs = s.pred_epochs
    /\ r.address_gen = s.address_gen
    /\ r.results = s.results
    /\ r.next_epoch_min_start_height = s.next_epoch_min_start_height
    /\ r.next_epoch_min_start_time = s.next_epoch_min_start_time
    /\ r.update_epoch_blocks_delay = s.update_epoch_blocks_delay
    /\ r.commit_only_data = s.commit_only_data

\* C2 as stated: after a successful rollback from last height L, with block
\* L-1 committed, read_last_block returns the record, every field included,
\* that it returned right after the commit of L-1.
C2_RollbackRestoresEveryField ==
    (RollbackCalled /\ last.result = "ok"
        /\ (RecordedHeight(last.pre) - 1) \in DOMAIN hist)
        => /\ IsSome(read_last_block(db))
           /\ read_last_block(db) = hist[RecordedHeight(last.pre) - 1].blk

\* C2 amended: after a successful rollback of block L, committed right after
\* block L-1 whose record R was readable, read_last_block returns a record of
\* height L-1 equal to R in the fields saved under the height or with a
\* predecessor; ethereum_height and eth_events_queue keep the values of block
\* L; conversion_state equals R's when block L was a full commit exactly if
\* rollback finds the epoch changed at L (pred_epochs.get_epoch(L-1) is not
\* the epoch of L).
C2_RollbackRestoresTrackedFields ==
    (RolledBackOneBlock /\ IsSome(hist[RecordedHeight(last.pre) - 1].blk)) =>
        LET was == Unwrap(read_last_block(last.pre))
            R == Unwrap(hist[was.height - 1].blk)
            now == read_last_block(db)
        IN /\ IsSome(now)
           /\ Unwrap(now).height = was.height - 1
           /\ SameTrackedFields(Unwrap(now), R)
           /\ Unwrap(now).ethereum_height = was.ethereum_height
           /\ Unwrap(now).eth_events_queue = was.eth_events_queue
           /\ (last.is_full_commit <=> epoch_changed(was))
                  => Unwrap(now).conversion_state = R.conversion_state

\* A block with new contents, a full commit that changed the epoch, was
\* rolled back to a readable block.
C2_Witness ==
    /\ RolledBackOneBlock /\ IsSome(hist[RecordedHeight(last.pre) - 1].blk)
    /\ last.is_full_commit /\ epoch_changed(Unwrap(read_last_block(last.pre)))
    /\ Unwrap(read_last_block(last.pre)).conversion_state
           # Unwrap(read_last_block(db)).conversion_state

C4_RollbackToLastHeightIsNoOp ==
    last.op = "rollback" =>
        /\ (RollbackCalled /\ last.height = RecordedHeight(last.pre))
               => (last.result = "no_need" /\ db = last.pre)
        /\ (last.before.result = "ok" /\ last.before.height = last.height
               /\ StoredHeight(last.pre) = last.height)
               => db = last.pre

\* rollback(L-1) was called twice in a row from last height L, the second
\* call finding the height already matching.
C4_Witness ==
    /\ last.op = "rollback" /\ last.result = "no_need"
    /\ last.before.result = "ok" /\ last.before.height = last.height
    /\ db = last.pre /\ db[BLOCK_CF] # EmptyMap

LastBlockKeysPresent(d) ==
    /\ {BLOCK_HEIGHT_KEY, NEXT_EPOCH_MIN_START_HEIGHT_KEY, NEXT_EPOCH_MIN_START_TIME_KEY,
         UPDATE_EPOCH_BLOCKS_DELAY_KEY, COMMIT_ONLY_DATA_KEY, CONVERSION_STATE_KEY,
         ETHEREUM_HEIGHT_KEY, ETH_EVENTS_QUEUE_KEY} \subseteq DOMAIN d[STATE_CF]
    /\ LET H == Raw(StoredHeight(d))
       IN {<<RESULTS_KEY_PREFIX, H>>, <<H, BLOCK_HASH_KEY_SEGMENT>>,
           <<H, BLOCK_TIME_KEY_SEGMENT>>, <<H, EPOCH_KEY_SEGMENT>>,
           <<H, PRED_EPOCHS_KEY_SEGMENT>>, <<H, ADDRESS_GEN_KEY_SEGMENT>>}
              \subseteq DOMAIN d[BLOCK_CF]

\* C8: read_last_block returns a record exactly when the eight state keys and
\* the six block keys of the stored height are all present, and then every
\* field of the record is the stored value; otherwise it returns None.
C8_LastBlockIffAllKeys ==
    /\ IsSome(read_last_block(db)) <=> LastBlockKeysPresent(db)
    /\ IsSome(read_last_block(db)) =>
          LET r == Unwrap(read_last_block(db))
              H == Raw(r.height)
          IN /\ r.height = StoredHeight(db)
             /\ r.hash = db[BLOCK_CF][<<H, BLOCK_HASH_KEY_SEGMENT>>]
             /\ r.time = db[BLOCK_CF][<<H, BLOCK_TIME_KEY_SEGMENT>>]
             /\ r.address_gen = db[BLOCK_CF][<<H, ADDRESS_GEN_KEY_SEGMENT>>]
             /\ r.results = db[BLOCK_CF][<<RESULTS_KEY_PREFIX, H>>]
             /\ EncodeU64(r.epoch) = db[BLOCK_CF][<<H, EPOCH_KEY_SEGMENT>>]
             /\ EncodeEpochs(r.pred_epochs) = db[BLOCK_CF][<<H, PRED_EPOCHS_KEY_SEGMENT>>]
             /\ EncodeU64(r.next_epoch_min_start_height)
                    = db[STATE_CF][NEXT_EPOCH_MIN_START_HEIGHT_KEY]
             /\ r.next_epoch_min_start_time = db[STATE_CF][NEXT_EPOCH_MIN_START_TIME_KEY]
             /\ r.update_epoch_blocks_delay = db[STATE_CF][UPDATE_EPOCH_BLOCKS_DELAY_KEY]
             /\ r.commit_only_data = db[STATE_CF][COMMIT_ONLY_DATA_KEY]
             /\ r.conversion_state = db[STATE_CF][CONVERSION_STATE_KEY]
             /\ r.ethereum_height = db[STATE_CF][ETHEREUM_HEIGHT_KEY]
             /\ r.eth_events_queue = db[STATE_CF][ETH_EVENTS_QUEUE_KEY]

\* A store that holds every key of the last block but conversion_state: no
\* record is read.
C8_Witness ==
    /\ BLOCK_HEIGHT_KEY \in DOMAIN db[STATE_CF]
    /\ CONVERSION_STATE_KEY \notin DOMAIN db[STATE_CF]
    /\ IsSome(read_last_block_without_conversion_state(db))
    /\ ~IsSome(read_last_block(db))

\* The fields of a BlockStateWrite that read_last_block returns, the
\* conversion state apart, equal in the written block w and the record r.
SameWrittenFields(r, w) ==
    /\ SameTrackedFields(r, w)
    /\ r.ethereum_height = w.ethereum_height
    /\ r.eth_events_queue = w.eth_events_queue

\* C9 as stated: after the batch of add_block_to_batch for height H is
\* executed, read_last_block returns a record of height H whose fields equal
\* the written ones, for every prior store and both values of is_full_commit.
C9_WrittenBlockLoadsBack ==
    last.op = "commit" =>
        /\ IsSome(read_last_block(db))
        /\ Unwrap(read_last_block(db)).height = last.height
        /\ SameWrittenFields(Unwrap(read_last_block(db)), Unwrap(last.block))
        /\ Unwrap(read_last_block(db)).conversion_state
               = Unwrap(last.block).conversion_state

\* C9 amended: after the batch of add_block_to_batch for height H is
\* executed, read_last_block returns a record exactly if the commit was full
\* or a conversion state was stored before; the record has height H and the
\* written fields, but its conversion state is the written one only for a
\* full commit and the one stored before otherwise.
C9_WrittenBlockLoadsBackButConversion ==
    last.op = "commit" =>
        LET before == GetCf(last.pre, STATE_CF, CONVERSION_STATE_KEY)
            now == read_last_block(db)
        IN /\ IsSome(now) <=> (last.is_full_commit \/ IsSome(before))
           /\ IsSome(now) =>
                 /\ Unwrap(now).height = last.height
                 /\ SameWrittenFields(Unwrap(now), Unwrap(last.block))
                 /\ Unwrap(now).conversion_state =
                        IF last.is_full_commit
                        THEN Unwrap(last.block).conversion_state
                        ELSE Unwrap(before)

\* A block committed without the full-commit flag on a store that held an
\* older conversion state: the record read back keeps the older one.
C9_Witness ==
    /\ last.op = "commit" /\ ~last.is_full_commit
    /\ IsSome(read_last_block(db))
    /\ Unwrap(read_last_block(db)).height = last.height
    /\ Unwrap(read_last_block(db)).conversion_state
           # Unwrap(last.block).conversion_state

\* The hashes of a bucket in the store d.
Bucket(d, bucket) == {h \in Hashes : <<bucket, h>> \in DOMAIN d[REPLAY_PROTECTION_CF]}

\* C11: after a successful rollback the `last` bucket holds exactly the hashes
\* that were in `buffer` before it, `all` holds the previous `all` without
\* those hashes and `buffer` is unchanged; has_replay_protection_entry is then
\* true exactly for the hashes that were in `buffer` or `all`, and false for
\* those that were only in `last`.
C11_RollbackRestoresReplayWindow ==
    (last.op = "rollback" /\ last.result = "ok") =>
        /\ Bucket(db, "last") = Bucket(last.pre, "buffer")
        /\ Bucket(db, "all") = Bucket(last.pre, "all") \ Bucket(last.pre, "buffer")
        /\ Bucket(db, "buffer") = Bucket(last.pre, "buffer")
        /\ DOMAIN db[REPLAY_PROTECTION_CF] =
               UNION {{last_key(h) : h \in Bucket(db, "last")},
                      {all_key(h) : h \in Bucket(db, "all")},
                      {buffer_key(h) : h \in Bucket(db, "buffer")}}
        /\ \A h \in Hashes :
               has_replay_protection_entry(db, h) <=>
                   h \in Bucket(last.pre, "buffer") \cup Bucket(last.pre, "all")
        /\ \A h \in Bucket(last.pre, "last") :
               h \notin Bucket(last.pre, "buffer") \cup Bucket(last.pre, "all")
                   => ~has_replay_protection_entry(db, h)

\* A rollback went through on a store with a hash in `buffer` and in `all`
\* and another hash in `last` only.
C11_Witness ==
    /\ last.op = "rollback" /\ last.result = "ok"
    /\ \E h \in Bucket(last.pre, "buffer") \cap Bucket(last.pre, "all") :
           has_replay_protection_entry(db, h)
    /\ \E h \in Bucket(last.pre, "last") :
           /\ h \notin Bucket(last.pre, "buffer") \cup Bucket(last.pre, "all")
           /\ ~has_replay_protection_entry(db, h)

\* C12: has_replay_protection_entry(h) is true if and only if last/h or all/h
\* is in the committed store; a hash under buffer/h only reports false.
C12_HasEntryIffLastOrAll ==
    \A h \in Hashes :
        /\ has_replay_protection_entry(db, h) <=>
               (h \in Bucket(db, "last") \/ h \in Bucket(db, "all"))
        /\ (h \in Bucket(db, "buffer") /\ h \notin Bucket(db, "last") \cup Bucket(db, "all"))
               => ~has_replay_protection_entry(db, h)

\* A committed store holds one hash under buffer only and another under all.
C12_Witness ==
    /\ pc = "idle"
    /\ \E h \in Bucket(db, "buffer") :
           /\ h \notin Bucket(db, "last") \cup Bucket(db, "all")
           /\ ~has_replay_protection_entry(db, h)
    /\ \E h \in Bucket(db, "all") :
           h \notin Bucket(db, "last") /\ has_replay_protection_entry(db, h)

\* The batch being committed stages a put, or a delete, as its last operation
\* on the replay-protection key.
StagedPut(key) ==
    <<REPLAY_PROTECTION_CF, key>> \in DOMAIN batch /\ batch[<<REPLAY_PROTECTION_CF, key>>].put

StagedDelete(key) ==
    <<REPLAY_PROTECTION_CF, key>> \in DOMAIN batch /\ ~batch[<<REPLAY_PROTECTION_CF, key>>].put

\* The step commits the batch of a block.
IsCommit == pc = "ready" /\ pc' = "idle"

\* The step is a rollback call.
IsRollback == nrb' = nrb + 1

\* A key written to the replay-protection CF stays until a commit deletes it
\* or a rollback is made.
ReplayKeyStays(keys) ==
    \A key \in keys :
        /\ (IsCommit /\ StagedPut(key)) => key \in DOMAIN db'[REPLAY_PROTECTION_CF]
        /\ (/\ key \in DOMAIN db[REPLAY_PROTECTION_CF]
            /\ ~IsRollback
            /\ ~(IsCommit /\ StagedDelete(key)))
               => key \in DOMAIN db'[REPLAY_PROTECTION_CF]

\* C13 as stated: every hash with a key (of any bucket) written by
\* write_replay_protection_entry in a committed batch, and not deleted or
\* rolled back since, is reported by has_replay_protection_entry after every
\* further commit.
C13_WrittenHashIsKnown ==
    [][/\ ReplayKeyStays(ReplayKeys)
       /\ \A key \in ReplayKeys :
              key \in DOMAIN db'[REPLAY_PROTECTION_CF]
                  => has_replay_protection_entry(db', key[2])]_vars

\* C13, amended: every hash whose `last` or `all` key was written by
\* write_replay_protection_entry in a committed batch, and not deleted or
\* rolled back since, is reported by has_replay_protection_entry after every
\* further commit; the keys of the buffer stay as well but are not reported.
C13_WrittenLastOrAllHashIsKnown ==
    [][/\ ReplayKeyStays(ReplayKeys)
       /\ \A h \in Hashes : \A key \in {last_key(h), all_key(h)} :
              key \in DOMAIN db'[REPLAY_PROTECTION_CF]
                  => has_replay_protection_entry(db', h)]_vars

\* A commit wrote the `all` key of a hash, and the `last` key of another hash
\* written by an earlier commit is still there; both hashes are reported.
C13_Witness ==
    /\ last.op = "commit"
    /\ \E h \in Hashes :
           /\ all_key(h) \in DOMAIN db[REPLAY_PROTECTION_CF]
           /\ all_key(h) \notin DOMAIN last.pre[REPLAY_PROTECTION_CF]
           /\ has_replay_protection_entry(db, h)
    /\ \E g \in Hashes :
           /\ last_key(g) \in DOMAIN db[REPLAY_PROTECTION_CF]
           /\ last_key(g) \in DOMAIN last.pre[REPLAY_PROTECTION_CF]
           /\ all_key(g) \notin DOMAIN db[REPLAY_PROTECTION_CF]
           /\ has_replay_protection_entry(db, g)

\* The elements of a sequence.
Range(seq) == {seq[i] : i \in 1..Len(seq)}

\* The old and new rows of a height in a column family.
DiffRowsOf(d, cf, height) ==
    DiffRowsAt(d, cf, height, OLD_DIFF_PREFIX) \cup DiffRowsAt(d, cf, height, NEW_DIFF_PREFIX)

\* The step is a call of prune_non_persisted_diffs on the batch being built.
IsPrune == Len(cur'.pruned) = Len(cur.pruned) + 1

\* A prune of height H leaves the store alone and adds nothing to the batch
\* but deletes of rows H/old/... and H/new/... of the rollback CF.
PruneFrame ==
    IsPrune =>
        LET H == cur'.pruned[Len(cur'.pruned)]
        IN /\ db' = db
           /\ DOMAIN batch \subseteq DOMAIN batch'
           /\ \A e \in DOMAIN batch' :
                  (e \notin DOMAIN batch \/ batch'[e] # batch[e]) =>
                      /\ e[1] = ROLLBACK_CF
                      /\ e[2] \in DiffRowsOf(db, ROLLBACK_CF, H)
                      /\ ~batch'[e].put

\* C14 as stated: after a batch containing prune_non_persisted_diffs(H) is
\* executed the rollback CF holds no row H/old/K or H/new/K, and the prune
\* changes nothing else.
C14_PruneClearsHeight ==
    [][/\ PruneFrame
       /\ IsCommit =>
              \A H \in Range(cur.pruned) : DiffRowsOf(db', ROLLBACK_CF, H) = {}]_vars

\* C14, amended: after a batch containing prune_non_persisted_diffs(H) is
\* executed, where the batch is that of a block of another height than H, the
\* rollback CF holds no row H/old/K or H/new/K; the prune leaves the rows of
\* every other height, the diffs CF and the subspace unchanged.
C14_PruneClearsOtherHeight ==
    [][/\ PruneFrame
       /\ IsCommit =>
              \A H \in Range(cur.pruned) \ {cur.height} :
                  DiffRowsOf(db', ROLLBACK_CF, H) = {}]_vars

\* A commit whose batch pruned a height below its own removed rows the
\* rollback CF held for that height, and kept the rows of its own height.
C14_Witness ==
    /\ last.op = "commit"
    /\ \E H \in Range(cur.pruned) \ {cur.height} :
           /\ DiffRowsOf(last.pre, ROLLBACK_CF, H) # {}
           /\ DiffRowsOf(db, ROLLBACK_CF, H) = {}
    /\ DiffRowsOf(db, ROLLBACK_CF, cur.height) # {}

\* The heights the rollback CF holds diff rows for.
RollbackRowHeights(d) == {h \in Heights : DiffRowsOf(d, ROLLBACK_CF, h) # {}}

\* Every commit but the first pruned the height committed before it.
PrunedPrevious ==
    \A h \in DOMAIN hist :
        LET below == {g \in DOMAIN hist : g < h}
        IN below # {} =>
               (CHOOSE g \in below : \A x \in below : x <= g) \in Range(hist[h].pruned)

\* C15: when every commit includes prune_non_persisted_diffs of the height
\* committed before it, the rollback CF holds after each commit diff rows of
\* the latest committed height only, and the diffs CF keeps every row written
\* to it.
C15_DiffLifecycle ==
    [][IsCommit =>
          /\ PrunedPrevious' => RollbackRowHeights(db') \subseteq {cur.height}
          /\ \A k \in DOMAIN db[DIFFS_CF] :
                 k \in DOMAIN db'[DIFFS_CF] /\ db'[DIFFS_CF][k] = db[DIFFS_CF][k]
          /\ \A e \in DOMAIN batch :
                 (e[1] = DIFFS_CF /\ batch[e].put) =>
                     e[2] \in DOMAIN db'[DIFFS_CF] /\ db'[DIFFS_CF][e[2]] = batch[e].val]_vars

\* Three blocks were committed, each pruning the height before it; the
\* rollback CF held rows of the second and now holds rows of the third only.
C15_Witness ==
    /\ last.op = "commit"
    /\ Cardinality(DOMAIN hist) >= 3
    /\ PrunedPrevious
    /\ RollbackRowHeights(last.pre) # {}
    /\ RollbackRowHeights(db) = {cur.height}

\* The subspace, the state CF and the replay-protection CF of both nodes agree.
SameOutcome(d, e) ==
    /\ d[SUBSPACE_CF] = e[SUBSPACE_CF]
    /\ d[STATE_CF] = e[STATE_CF]
    /\ d[REPLAY_PROTECTION_CF] = e[REPLAY_PROTECTION_CF]

\* C16: for the same subspace writes and deletes over blocks L-1 and L and a
\* rollback to L-1, the subspace, the state CF and the replay-protection CF
\* come out the same whether every call persisted its diffs or none did.
C16_PersistModesAgree ==
    (/\ last.op = "rollback" /\ last.result = "ok" /\ last.commits = 2
     /\ nrb = 1 /\ Cardinality(DOMAIN hist) = 1)
        => SameOutcome(db, twin.db)

\* The key texts an iteration yielded, in its order.
YieldedKeys(res) == [i \in 1..Len(res) |-> res[i].key]

\* The iteration yields the keys of ks, each once, in ascending bytewise
\* order, each with its value in the subspace.
YieldsExactly(res, ks) ==
    /\ Len(res) = Cardinality(ks)
    /\ {res[i].key : i \in 1..Len(res)} = {KeyText(k) : k \in ks}
    /\ \A i, j \in 1..Len(res) : i < j => BytesLess(res[i].key, res[j].key)
    /\ \A k \in ks : \E i \in 1..Len(res) :
           res[i].key = KeyText(k) /\ res[i].val = db[SUBSPACE_CF][k]

\* The live subspace keys whose leading segments are those of P and that
\* have at least one more segment.
LiveKeysUnder(P) ==
    {k \in DOMAIN db[SUBSPACE_CF] : Len(k) > Len(P) /\ SubSeq(k, 1, Len(P)) = P}

\* C17: iter_prefix(Some(P)) over the subspace yields exactly the live keys
\* that begin with P followed by '/', each once and in ascending
\* lexicographic order; 01/a is not yielded for P = 0.
C17_PrefixIteration ==
    /\ \A P \in IterPrefixes :
           YieldsExactly(iter_subspace_prefix(db, Some(P)), LiveKeysUnder(P))
    /\ \A i \in 1..Len(iter_subspace_prefix(db, Some(<<"0">>))) :
           iter_subspace_prefix(db, Some(<<"0">>))[i].key # KeyText(<<"01", "a">>)

\* The subspace holds 0/a, 0/b and 01/a, and the iteration under 0 yields
\* 0/a and then 0/b.
C17_Witness ==
    /\ {<<"0", "a">>, <<"0", "b">>, <<"01", "a">>} \subseteq DOMAIN db[SUBSPACE_CF]
    /\ YieldedKeys(iter_subspace_prefix(db, Some(<<"0">>))) =
           <<KeyText(<<"0", "a">>), KeyText(<<"0", "b">>)>>

\* C18: iter_prefix(None) over the subspace yields exactly the keys for which
\* read_subspace_val returns a value, each once and in ascending
\* lexicographic order, after any committed writes, deletes and rollbacks.
C18_FullIteration ==
    YieldsExactly(iter_subspace_prefix(db, None),
                  {k \in IterKeys : IsSome(read_subspace_val(db, k))})

\* After a rollback that went through, two keys are live and one is not, and
\* the iteration yields the two.
C18_Witness ==
    /\ last.op = "rollback" /\ last.result = "ok"
    /\ db[SUBSPACE_CF] # last.pre[SUBSPACE_CF]
    /\ Cardinality({k \in IterKeys : IsSome(read_subspace_val(db, k))}) = 2
    /\ Len(iter_subspace_prefix(db, None)) = 2

\* The root key and the store key of a store type and selector.
MerkleRootKey(st, sel) == <<"tree", st, Raw(sel), MERKLE_TREE_ROOT_KEY_SEGMENT>>
MerkleStoreKey(st, sel) == <<"tree", st, Raw(sel), MERKLE_TREE_STORE_KEY_SEGMENT>>

\* The selectors (heights and epochs) of the Merkle tree entries.
Selectors == 0..(MaxHeight + 1)

\* C19: in every store state reached by committed blocks, prunes of Merkle
\* tree stores and rollbacks, the root entry of a store type and selector
\* exists if and only if its store entry exists.
C19_MerklePairing ==
    /\ \A st \in StoreTypes, sel \in Selectors :
           MerkleRootKey(st, sel) \in DOMAIN db[BLOCK_CF]
               <=> MerkleStoreKey(st, sel) \in DOMAIN db[BLOCK_CF]
    /\ \A k \in DOMAIN db[BLOCK_CF] :
           k[1] = "tree" => \E st \in StoreTypes, sel \in Selectors :
               k \in {MerkleRootKey(st, sel), MerkleStoreKey(st, sel)}

\* A commit whose batch pruned a store removed a root and store pair that the
\* store held, and the pair of another store type is there.
C19_Witness ==
    /\ last.op = "commit"
    /\ \E st \in StoreTypes, sel \in Selectors :
           /\ MerkleRootKey(st, sel) \in DOMAIN last.pre[BLOCK_CF]
           /\ MerkleRootKey(st, sel) \notin DOMAIN db[BLOCK_CF]
           /\ MerkleStoreKey(st, sel) \notin DOMAIN db[BLOCK_CF]
    /\ \E st \in StoreTypes, sel \in Selectors :
           /\ MerkleRootKey(st, sel) \in DOMAIN db[BLOCK_CF]
           /\ MerkleStoreKey(st, sel) \in DOMAIN db[BLOCK_CF]

\* C20: overwrite_entry called with Some(height) that is not the last
\* committed height returns an UnsupportedHeight error to the caller and adds
\* nothing to the batch.
C20_OtherHeightIsRejected ==
    (/\ last.op = "overwrite_entry"
     /\ BLOCK_HEIGHT_KEY \in DOMAIN last.pre[STATE_CF]
     /\ last.height # StoredHeight(last.pre))
        => (last.result = "unsupported_height" /\ batch = EmptyMap /\ db = last.pre)

\* C21: when rollback fails, because a pred/ key is missing or because a task
\* of the parallel subspace scan fails, no batch is executed: every column
\* family is as it was before the call.
C21_FailedRollbackChangesNothing ==
    (last.op = "rollback" /\ last.result \notin {"ok", "no_need"}) => db = last.pre

\* A rollback failed on a missing pred/ key of a store that holds a block and
\* a subspace key.
C21_Witness ==
    /\ last.op = "rollback"
    /\ last.result = "unknown_key"
    /\ DOMAIN last.pre[SUBSPACE_CF] # {}
    /\ IsSome(read_last_block(last.pre))
    /\ db = last.pre

\* C22: after every successful rollback no hash has both its last/ key and
\* its all/ key in the store, whatever the buckets held before the rollback.
C22_ReplayUniqueAfterRollback ==
    (last.op = "rollback" /\ last.result = "ok") =>
        \A h \in Hashes : ~(h \in Bucket(db, "last") /\ h \in Bucket(db, "all"))

\* A rollback went through on a store in which one hash was under last/ and
\* all/ and another under buffer/ and all/; the second is now under last/ only.
C22_Witness ==
    /\ last.op = "rollback" /\ last.result = "ok"
    /\ Bucket(last.pre, "last") \cap Bucket(last.pre, "all") # {}
    /\ \E h \in Bucket(last.pre, "buffer") \cap Bucket(last.pre, "all") :
           h \in Bucket(db, "last") /\ h \notin Bucket(db, "all")

\* The keys of the block record of height H, and the part of the record a
\* store holds.
BlockRecordKeys(H) ==
    {<<Raw(H), seg>> : seg \in {BLOCK_HASH_KEY_SEGMENT, BLOCK_TIME_KEY_SEGMENT,
                                 EPOCH_KEY_SEGMENT, PRED_EPOCHS_KEY_SEGMENT,
                                 ADDRESS_GEN_KEY_SEGMENT, BLOCK_HEADER_KEY_SEGMENT}}
        \cup {<<RESULTS_KEY_PREFIX, Raw(H)>>}

BlockRecord(d, H) ==
    [k \in BlockRecordKeys(H) \cap DOMAIN d[BLOCK_CF] |-> d[BLOCK_CF][k]]

\* The block record add_block_to_batch writes for a block at height H.
WrittenBlockRecord(state, H) ==
    [k \in BlockRecordKeys(H) \ (IF IsSome(state.header) THEN {}
                                   ELSE {<<Raw(H), BLOCK_HEADER_KEY_SEGMENT>>}) |->
        CASE k[1] = RESULTS_KEY_PREFIX -> state.results
          [] k[2] = BLOCK_HASH_KEY_SEGMENT -> state.hash
          [] k[2] = BLOCK_TIME_KEY_SEGMENT -> state.time
          [] k[2] = EPOCH_KEY_SEGMENT -> EncodeU64(state.epoch)
          [] k[2] = PRED_EPOCHS_KEY_SEGMENT -> EncodeEpochs(state.pred_epochs)
          [] k[2] = ADDRESS_GEN_KEY_SEGMENT -> state.address_gen
          [] k[2] = BLOCK_HEADER_KEY_SEGMENT -> Unwrap(state.header)]

\* C23: the block record of H is created by the commit at H, stays present and
\* unchanged through every later commit and every prune, and is removed exactly
\* by a successful rollback from last height H, which leaves the records of
\* the other heights as they are; read_block_header(H) returns the header
\* written at H until then and None afterwards.
C23_BlockRecordLifecycle ==
    [][\A H \in Heights :
          LET rolled == IsRollback /\ last'.result = "ok" /\ RecordedHeight(db) = H
              committed == IsCommit /\ cur.height = H
          IN /\ rolled => (BlockRecord(db', H) = EmptyMap /\ read_block_header(db', H) = None)
             /\ committed =>
                    /\ BlockRecord(db', H) = WrittenBlockRecord(Unwrap(last.block), H)
                    /\ read_block_header(db', H) = Unwrap(last.block).header
             /\ (~rolled /\ ~committed) =>
                    /\ BlockRecord(db', H) = BlockRecord(db, H)
                    /\ read_block_header(db', H) = read_block_header(db, H)]_vars

\* A rollback removed the record and the header of the last height and left
\* the record of a height below in place.
C23_Witness ==
    /\ last.op = "rollback" /\ last.result = "ok"
    /\ \E H \in Heights :
           /\ RecordedHeight(last.pre) = H
           /\ IsSome(read_block_header(last.pre, H))
           /\ read_block_header(db, H) = None
           /\ BlockRecord(db, H) = EmptyMap
           /\ \E G \in Heights :
                  G < H /\ BlockRecord(db, G) # EmptyMap
                        /\ BlockRecord(db, G) = BlockRecord(last.pre, G)

\* The state keys add_block_to_batch writes with a pred/ sibling on every
\* commit, and those it writes without one.
TrackedStateKeys ==
    {NEXT_EPOCH_MIN_START_HEIGHT_KEY, NEXT_EPOCH_MIN_START_TIME_KEY,
     UPDATE_EPOCH_BLOCKS_DELAY_KEY, COMMIT_ONLY_DATA_KEY}

UntrackedStateKeys == {ETHEREUM_HEIGHT_KEY, ETH_EVENTS_QUEUE_KEY}

PredKey(key) == <<PRED_KEY_PREFIX>> \o key

\* C24: after a block commit, pred/<name> of each tracked key holds the bytes
\* <name> had in the store right before that commit (none when the store was
\* empty, so that no pred/ key exists after the first commit), and
\* ethereum_height and eth_events_queue never have a pred/ sibling.
C24_PredSibling ==
    /\ \A key \in UntrackedStateKeys : PredKey(key) \notin DOMAIN db[STATE_CF]
    /\ last.op = "commit" =>
          /\ \A key \in TrackedStateKeys :
                 /\ key \in DOMAIN db[STATE_CF]
                 /\ GetCf(db, STATE_CF, PredKey(key)) = GetCf(last.pre, STATE_CF, key)
          /\ DOMAIN last.pre[STATE_CF] = {} =>
                 \A k \in DOMAIN db[STATE_CF] : k[1] # PRED_KEY_PREFIX

\* A second commit saved the values of the first under pred/, which differ
\* from the values it wrote.
C24_Witness ==
    /\ last.op = "commit"
    /\ \A key \in TrackedStateKeys :
           /\ IsSome(GetCf(last.pre, STATE_CF, key))
           /\ GetCf(db, STATE_CF, PredKey(key)) = GetCf(last.pre, STATE_CF, key)
           /\ GetCf(db, STATE_CF, PredKey(key)) # GetCf(db, STATE_CF, key)

\* The conversion state a store holds, and whether the pred_epochs of a block
\* record map the height before it to another epoch than the block's.
ConversionState(d) == GetCf(d, STATE_CF, CONVERSION_STATE_KEY)

EpochDiffersAt(blk) == GetEpoch(blk.pred_epochs, blk.height - 1) # Some(blk.epoch)

\* What a successful rollback does to conversion_state: it is overwritten
\* with pred/conversion_state exactly if the epoch differs, and untouched
\* otherwise.
ConversionStateReverted ==
    LET was == Unwrap(read_last_block(last.pre))
    IN ConversionState(db) =
           IF EpochDiffersAt(was)
           THEN GetCf(last.pre, STATE_CF, PredKey(CONVERSION_STATE_KEY))
           ELSE ConversionState(last.pre)

StagedStatePut(key) ==
    <<STATE_CF, key>> \in DOMAIN batch /\ batch[<<STATE_CF, key>>].put

\* C26: add_block_to_batch stages conversion_state if and only if
\* is_full_commit is true, and pred/conversion_state only then (when a
\* conversion state is stored already); after a commit with is_full_commit
\* false both keys are as before the commit, while every other state singleton
\* holds the value of the block.
C26_ConversionStateOnFullCommitOnly ==
    /\ last.op = "add_block" =>
          /\ StagedStatePut(CONVERSION_STATE_KEY) <=> last.is_full_commit
          /\ StagedStatePut(PredKey(CONVERSION_STATE_KEY)) <=>
                 (last.is_full_commit /\ IsSome(ConversionState(db)))
          /\ <<STATE_CF, CONVERSION_STATE_KEY>> \in DOMAIN batch <=> last.is_full_commit
    /\ last.op = "commit" =>
          LET w == Unwrap(last.block)
              state_value(key) == GetCf(db, STATE_CF, key)
          IN /\ ~last.is_full_commit =>
                    /\ ConversionState(db) = ConversionState(last.pre)
                    /\ state_value(PredKey(CONVERSION_STATE_KEY))
                           = GetCf(last.pre, STATE_CF, PredKey(CONVERSION_STATE_KEY))
             /\ last.is_full_commit =>
                    /\ ConversionState(db) = Some(w.conversion_state)
                    /\ state_value(PredKey(CONVERSION_STATE_KEY)) = ConversionState(last.pre)
             /\ state_value(BLOCK_HEIGHT_KEY) = Some(EncodeU64(w.height))
             /\ state_value(NEXT_EPOCH_MIN_START_HEIGHT_KEY)
                    = Some(EncodeU64(w.next_epoch_min_start_height))
             /\ state_value(NEXT_EPOCH_MIN_START_TIME_KEY) = Some(w.next_epoch_min_start_time)
             /\ state_value(UPDATE_EPOCH_BLOCKS_DELAY_KEY) = Some(w.update_epoch_blocks_delay)
             /\ state_value(COMMIT_ONLY_DATA_KEY) = Some(w.commit_only_data)
             /\ state_value(ETHEREUM_HEIGHT_KEY) = Some(w.ethereum_height)
             /\ state_value(ETH_EVENTS_QUEUE_KEY) = Some(w.eth_events_queue)

\* A block was committed without is_full_commit on a store that held a
\* conversion state and its pred/ sibling, both other than the block's value.
C26_Witness ==
    /\ last.op = "commit" /\ ~last.is_full_commit
    /\ IsSome(ConversionState(last.pre))
    /\ IsSome(GetCf(last.pre, STATE_CF, PredKey(CONVERSION_STATE_KEY)))
    /\ ConversionState(db) = ConversionState(last.pre)
    /\ ConversionState(db) # Some(Unwrap(last.block).conversion_state)
    /\ GetCf(db, STATE_CF, NEXT_EPOCH_MIN_START_TIME_KEY)
           # GetCf(last.pre, STATE_CF, NEXT_EPOCH_MIN_START_TIME_KEY)

\* The store types add_block_to_batch keys by height, and the selector it
\* keys the entries of a store type by for a block.
HeightKeyedStoreTypes == {"Base", "CommitData"}

MerkleSelector(st, w) == IF st \in HeightKeyedStoreTypes THEN w.height ELSE w.epoch

\* C27: a committed block at height H stores the root and store of Base and
\* CommitData under H whatever is_full_commit is, and the root and store of
\* every other store type under the block's epoch exactly when is_full_commit
\* is true; every other Merkle tree entry is as before the commit.
C27_MerkleWritePolicy ==
    last.op = "commit" =>
        LET w == Unwrap(last.block)
            written(st) == st \in HeightKeyedStoreTypes \/ last.is_full_commit
        IN \A st \in StoreTypes, sel \in Selectors :
              IF written(st) /\ sel = MerkleSelector(st, w)
              THEN /\ GetCf(db, BLOCK_CF, MerkleRootKey(st, sel))
                          = Some(w.merkle_tree_stores.root[st])
                   /\ GetCf(db, BLOCK_CF, MerkleStoreKey(st, sel))
                          = Some(w.merkle_tree_stores.store[st])
              ELSE /\ GetCf(db, BLOCK_CF, MerkleRootKey(st, sel))
                          = GetCf(last.pre, BLOCK_CF, MerkleRootKey(st, sel))
                   /\ GetCf(db, BLOCK_CF, MerkleStoreKey(st, sel))
                          = GetCf(last.pre, BLOCK_CF, MerkleStoreKey(st, sel))

\* A block committed without is_full_commit wrote Base and CommitData under
\* its height and left the older entry of another store type under its epoch.
C27_Witness ==
    /\ last.op = "commit" /\ ~last.is_full_commit
    /\ LET w == Unwrap(last.block)
       IN /\ \A st \in HeightKeyedStoreTypes :
                 /\ MerkleRootKey(st, w.height) \notin DOMAIN last.pre[BLOCK_CF]
                 /\ GetCf(db, BLOCK_CF, MerkleRootKey(st, w.height))
                        = Some(w.merkle_tree_stores.root[st])
          /\ \E st \in StoreTypes \ HeightKeyedStoreTypes :
                 /\ IsSome(GetCf(db, BLOCK_CF, MerkleRootKey(st, w.epoch)))
                 /\ GetCf(db, BLOCK_CF, MerkleRootKey(st, w.epoch))
                        # Some(w.merkle_tree_stores.root[st])

\* The entry a batch stages for a key of a column family, if any.
Staged(b, cf, key) == IF <<cf, key>> \in DOMAIN b THEN Some(b[<<cf, key>>]) ELSE None

\* C28: batch_write_subspace_val returns len(value) - len(old) when the key
\* has the committed value old, which may be negative, and len(value) when the
\* key is absent, and it stages the put of subspace[K] = value.
C28_WriteReturnsSizeDiff ==
    (ret.op = "write" /\ pc = "ops" /\ ret.height = cur.height) =>
        /\ ret.size = IF ret.key \in DOMAIN db[SUBSPACE_CF]
                      THEN Len(ret.value) - Len(db[SUBSPACE_CF][ret.key])
                      ELSE Len(ret.value)
        /\ Staged(batch, SUBSPACE_CF, ret.key) = Some([put |-> TRUE, val |-> ret.value])

\* A write of a value shorter than the committed one returned a negative size.
C28_Witness ==
    /\ ret.op = "write" /\ pc = "ops" /\ ret.height = cur.height
    /\ ret.key \in DOMAIN db[SUBSPACE_CF]
    /\ ret.size < 0
    /\ Staged(batch, SUBSPACE_CF, ret.key) = Some([put |-> TRUE, val |-> ret.value])

\* The entries a batch stages in the two column families that hold diffs.
StagedDiffRows(b) == [x \in {y \in DOMAIN b : y[1] \in {DIFFS_CF, ROLLBACK_CF}} |-> b[x]]

\* C29: batch_delete_subspace_val returns the length of the committed value
\* of the key, or 0 when the key is absent; when the key is absent it stages
\* no diff row; in both cases it stages the deletion of subspace[K] and stages
\* no <height>/new/K row.
C29_DeleteReturnsPreviousLength ==
    (ret.op = "delete" /\ pc = "ops" /\ ret.height = cur.height) =>
        LET new_key == old_and_new_diff_key(ret.key, ret.height)[2]
        IN /\ ret.size = IF ret.key \in DOMAIN db[SUBSPACE_CF]
                         THEN Len(db[SUBSPACE_CF][ret.key])
                         ELSE 0
           /\ ret.key \notin DOMAIN db[SUBSPACE_CF] =>
                  StagedDiffRows(batch) = StagedDiffRows(ret.before)
           /\ Staged(batch, SUBSPACE_CF, ret.key) = Some([put |-> FALSE, val |-> <<>>])
           /\ \A cf \in {DIFFS_CF, ROLLBACK_CF} :
                  Staged(batch, cf, new_key) = Staged(ret.before, cf, new_key)

\* A key absent from the store was written and then deleted in one block:
\* the delete returned 0, staged the deletion and added no diff row.
C29_Witness ==
    /\ ret.op = "delete" /\ pc = "ops" /\ ret.height = cur.height
    /\ ret.key \notin DOMAIN db[SUBSPACE_CF]
    /\ ret.size = 0
    /\ Staged(ret.before, SUBSPACE_CF, ret.key) # None
    /\ Staged(batch, SUBSPACE_CF, ret.key) = Some([put |-> FALSE, val |-> <<>>])
    /\ StagedDiffRows(batch) = StagedDiffRows(ret.before)
    /\ StagedDiffRows(batch) # EmptyMap

\* The last and all keys of the replay-protection column family.
LastAndAllKeys == UNION {{last_key(h), all_key(h)} : h \in Hashes}

\* C30: prune_replay_protection_buffer stages the delete of every buffer key
\* of the committed store and nothing else, so that after the batch is
\* executed every buffer entry committed at the time of the call is gone
\* unless the batch wrote it again after the prune, and the last and all
\* entries are what the store held and the other calls of the batch wrote.
C30_PruneClearsBufferOnly ==
    /\ (ret.op = "prune_buffer" /\ pc = "ops" /\ ret.height = cur.height
          /\ ret.after = {}) =>
          /\ \A h \in Hashes :
                 Staged(batch, REPLAY_PROTECTION_CF, buffer_key(h)) =
                     IF buffer_key(h) \in DOMAIN db[REPLAY_PROTECTION_CF]
                     THEN Some([put |-> FALSE, val |-> <<>>])
                     ELSE Staged(ret.before, REPLAY_PROTECTION_CF, buffer_key(h))
          /\ \A key \in LastAndAllKeys :
                 Staged(batch, REPLAY_PROTECTION_CF, key)
                     = Staged(ret.before, REPLAY_PROTECTION_CF, key)
    /\ (ret.op = "prune_buffer" /\ last.op = "commit" /\ pc = "idle"
          /\ ret.height = last.height) =>
          /\ \A h \in Hashes :
                 (/\ buffer_key(h) \in DOMAIN last.pre[REPLAY_PROTECTION_CF]
                  /\ buffer_key(h) \notin ret.after)
                     => buffer_key(h) \notin DOMAIN db[REPLAY_PROTECTION_CF]
          /\ \A key \in LastAndAllKeys :
                 key \in DOMAIN db[REPLAY_PROTECTION_CF] <=>
                     \/ key \in DOMAIN last.pre[REPLAY_PROTECTION_CF]
                     \/ key \in ret.after
                     \/ Staged(ret.before, REPLAY_PROTECTION_CF, key) # None

\* A commit whose batch pruned the buffer removed a committed buffer entry,
\* kept another one that the batch wrote again after the prune, and kept a
\* committed last or all entry.
C30_Witness ==
    /\ ret.op = "prune_buffer" /\ last.op = "commit" /\ pc = "idle"
    /\ ret.height = last.height
    /\ \E h \in Hashes :
           /\ buffer_key(h) \in DOMAIN last.pre[REPLAY_PROTECTION_CF]
           /\ buffer_key(h) \notin DOMAIN db[REPLAY_PROTECTION_CF]
    /\ \E h \in Hashes :
           /\ buffer_key(h) \in DOMAIN last.pre[REPLAY_PROTECTION_CF]
           /\ buffer_key(h) \in ret.after
           /\ buffer_key(h) \in DOMAIN db[REPLAY_PROTECTION_CF]

\* C31: the store a rollback produces is the same for every order of the
\* tasks of the subspace scan, namely the one produced when the scan is one
\* step; while the scan runs, the batch holds for every key whose task wrote
\* exactly the put or delete of that task, and nothing for the keys whose
\* task did not write yet.
C31_ScanOrderIndependent ==
    /\ pc = "scan" =>
          LET last_block == Unwrap(read_last_block(db))
              previous_value(k) ==
                  read_subspace_val_with_height(db, k,
                      prev_height(last_block.height), last_block.height)
          IN /\ scan.pending \cup DOMAIN scan.computed \cup scan.done
                    = DOMAIN db[SUBSPACE_CF]
             /\ \A k \in scan.done :
                    Staged(batch, SUBSPACE_CF, k) =
                        IF IsSome(previous_value(k))
                        THEN Some([put |-> TRUE, val |-> Unwrap(previous_value(k))])
                        ELSE Some([put |-> FALSE, val |-> <<>>])
             /\ \A k \in scan.pending \cup DOMAIN scan.computed :
                    Staged(batch, SUBSPACE_CF, k) = None
    /\ (pc = "idle" /\ last.op = "rollback" /\ last.result = "ok") =>
          /\ scan.done = DOMAIN last.pre[SUBSPACE_CF]
          /\ db = rollback(last.pre, last.height)

\* A rollback whose scan ran two tasks ended, and a key whose diffs were
\* not persisted has a value other than the one the scan staged for it: the
\* later pass over the rollback column family won.
C31_Witness ==
    /\ pc = "idle" /\ last.op = "rollback" /\ last.result = "ok"
    /\ Cardinality(scan.done) >= 2
    /\ \E k \in scan.done :
           LET last_block == Unwrap(read_last_block(last.pre))
           IN GetCf(db, SUBSPACE_CF, k) #
                  read_subspace_val_with_height(last.pre, k,
                      prev_height(last_block.height), last_block.height)

\* The store d without the rows of the diffs column family at heights above
\* last_height.
WithoutDiffsAbove(d, last_height) ==
    [d EXCEPT ![DIFFS_CF] =
        [k \in {x \in DOMAIN @ : \E h \in 0..last_height : x[1] = Raw(h)} |-> @[k]]]

\* C32: read_subspace_val_with_height(K, H, L) inspects successor heights
\* from H+1 to L only, and the diff rows stored at heights above L do not
\* influence its result.
C32_RowsAboveLastHeightIgnored ==
    (ret.op = "read" /\ ret.outcome.result = "ok") =>
        /\ \A i \in 1..Len(ret.outcome.inspected) :
               ret.outcome.inspected[i] \in (ret.height + 1)..ret.last_height
        /\ \A overflow_checks \in BOOLEAN :
               LET other == read_subspace_val_with_height_outcome(
                                WithoutDiffsAbove(ret.store, ret.last_height),
                                ret.key, ret.height, ret.last_height, overflow_checks)
               IN other.result = "ok" => other.value = ret.outcome.value

\* The greater of two integers.
Max(a, b) == IF a >= b THEN a ELSE b

\* C33 as stated: read_subspace_val_with_height(K, H, L) returns for all
\* heights H and L after inspecting at most max(1, L - H) successor heights.
C33_ReadTerminates ==
    ret.op = "read" =>
        /\ ret.outcome.result = "ok"
        /\ Len(ret.outcome.inspected) <= Max(1, ret.last_height - ret.height)

\* C33 amended: for every height H below u64::MAX and every L,
\* read_subspace_val_with_height(K, H, L) returns after inspecting at most
\* max(1, L - H) successor heights, also for H >= L and for heights at which
\* no block was committed.
C33_ReadTerminatesBelowMaxHeight ==
    (ret.op = "read" /\ ret.height < MaxU64) =>
        /\ ret.outcome.result = "ok"
        /\ Len(ret.outcome.inspected) <= Max(1, ret.last_height - ret.height)

\* A read at a height above the last height given, at which no block was
\* committed, returned after inspecting one successor height.
C33_Witness ==
    /\ ret.op = "read" /\ ret.height < MaxU64
    /\ ret.height > ret.last_height
    /\ ret.height \notin DOMAIN hist
    /\ DOMAIN ret.store[DIFFS_CF] # {}
    /\ ret.outcome.result = "ok"
    /\ Len(ret.outcome.inspected) = 1

\* The store d with the value put under a key of a column family.
WithEntry(d, cf, key, value) ==
    [d EXCEPT ![cf] = [k \in DOMAIN @ \cup {key} |-> IF k = key THEN value ELSE @[k]]]

\* The batch of the overwrite_entry call recorded last was executed.
Migrated == last.op = "migrated" /\ ret.op = "overwrite_entry"

\* C34: after the batch of overwrite_entry(None or Some(L), SUBSPACE, K, V) is
\* executed with L the last committed height, read_subspace_val(K) and
\* read_subspace_val_with_height(K, L, L) return V, the store being changed
\* at subspace[K] and at the diffs row L/new/K only; for another column family
\* the addressed key alone is written.
C34_OverwriteIsRead ==
    Migrated =>
        LET L == StoredHeight(last.pre)
        IN IF ret.cf = SUBSPACE_CF
           THEN /\ read_subspace_val(db, ret.key) = Some(ret.value)
                /\ read_subspace_val_with_height(db, ret.key, L, L) = Some(ret.value)
                /\ db = WithEntry(WithEntry(last.pre, SUBSPACE_CF, ret.key, ret.value),
                              DIFFS_CF, Join(<<Raw(L), NEW_DIFF_PREFIX>>, ret.key),
                              ret.value)
           ELSE db = WithEntry(last.pre, ret.cf, ret.key, ret.value)

\* A migration overwrote a subspace key that block L had written with another
\* value, and both reads return the new value.
C34_Witness ==
    /\ Migrated /\ ret.cf = SUBSPACE_CF
    /\ LET L == StoredHeight(last.pre)
       IN /\ IsSome(read_subspace_val_with_height(last.pre, ret.key, L, L))
          /\ read_subspace_val_with_height(last.pre, ret.key, L, L) # Some(ret.value)
          /\ IsSome(read_diffs_val(last.pre, ret.key, L, FALSE))
          /\ read_subspace_val(db, ret.key) = Some(ret.value)
          /\ read_subspace_val_with_height(db, ret.key, L, L) = Some(ret.value)

\* C35: overwrite_entry on a subspace key K at the last committed height L
\* leaves the historic reads of K at every height H < L as they were.
C35_OverwriteKeepsHistory ==
    (Migrated /\ ret.cf = SUBSPACE_CF) =>
        LET L == StoredHeight(last.pre)
        IN \A H \in 0..(L - 1) :
              read_subspace_val_with_height(db, ret.key, H, L)
                  = read_subspace_val_with_height(last.pre, ret.key, H, L)
\* C36: after a successful rollback from last height L nothing the commit of
\* block L wrote into the block CF remains: no key of the L/ segments, and for
\* Base and CommitData neither the root nor the store entry of height L, so
\* that read_merkle_tree_stores(e, L, Some(Base)) is None for every epoch e.
C36_RollbackRemovesMerkleEntriesOfBlock ==
    (last.op = "rollback" /\ last.result = "ok") =>
        LET L == RecordedHeight(last.pre)
        IN /\ \A k \in DOMAIN db[BLOCK_CF] : k[1] # Raw(L)
           /\ \A st \in HeightKeyedStoreTypes :
                  /\ MerkleRootKey(st, L) \notin DOMAIN db[BLOCK_CF]
                  /\ MerkleStoreKey(st, L) \notin DOMAIN db[BLOCK_CF]
           /\ \A e \in Selectors :
                  read_merkle_tree_stores(db, e, L, Some("Base")) = None
\* A batch holding one prune_merkle_tree_store has just been executed.
MerklePruned == last.op = "migrated" /\ ret.op = "prune_merkle_tree_store"

\* The store differs from the store before the batch by the removal of the
\* root entry and of the store entry of (st, e) and by nothing else.
MerklePruneFrame(st, e) ==
    /\ DOMAIN db[BLOCK_CF] =
           DOMAIN last.pre[BLOCK_CF] \ {MerkleRootKey(st, e), MerkleStoreKey(st, e)}
    /\ \A k \in DOMAIN db[BLOCK_CF] : db[BLOCK_CF][k] = last.pre[BLOCK_CF][k]
    /\ \A cf \in DOMAIN db : cf # BLOCK_CF => db[cf] = last.pre[cf]

\* The height-keyed Base and CommitData entries outside the set skip are the
\* same as before the batch.
HeightKeyedEntriesKept(skip) ==
    \A st \in HeightKeyedStoreTypes, h \in Selectors :
        \A k \in {MerkleRootKey(st, h), MerkleStoreKey(st, h)} \ skip :
            k \in DOMAIN last.pre[BLOCK_CF] =>
                /\ k \in DOMAIN db[BLOCK_CF]
                /\ db[BLOCK_CF][k] = last.pre[BLOCK_CF][k]

\* C37 as stated: executing a batch with prune_merkle_tree_store(batch, st, e)
\* removes the root and the store entry of (st, e) together and leaves every
\* other block-CF entry unchanged, in particular every height-keyed Base and
\* CommitData entry and the entries of st at other epochs.
C37_PruneKeepsEveryHeightKeyedEntry ==
    MerklePruned => /\ MerklePruneFrame(ret.key[1], ret.height)
              /\ HeightKeyedEntriesKept({})

\* C37: executing a batch with prune_merkle_tree_store(batch, st, e) removes
\* the root and the store entry under tree/st/e together and leaves every other
\* entry unchanged; every height-keyed Base and CommitData entry is kept when
\* st is an epoch-keyed store type, and when st is Base or CommitData every
\* height-keyed entry but the one of st at height e is kept.
C37_PruneFrame ==
    MerklePruned =>
        LET st == ret.key[1]
            e == ret.height
        IN /\ MerklePruneFrame(st, e)
           /\ MerkleRootKey(st, e) \notin DOMAIN db[BLOCK_CF]
           /\ MerkleStoreKey(st, e) \notin DOMAIN db[BLOCK_CF]
           /\ HeightKeyedEntriesKept(IF st \in HeightKeyedStoreTypes
                                     THEN {MerkleRootKey(st, e), MerkleStoreKey(st, e)}
                                     ELSE {})
           /\ \A e2 \in Selectors \ {e} :
                  \A k \in {MerkleRootKey(st, e2), MerkleStoreKey(st, e2)} :
                      k \in DOMAIN last.pre[BLOCK_CF] => k \in DOMAIN db[BLOCK_CF]

\* An Account store that existed at epoch e was pruned while its entries at
\* another epoch and height-keyed Base entries are in the store.
C37_Witness ==
    /\ MerklePruned
    /\ ret.key[1] = "Account"
    /\ MerkleRootKey("Account", ret.height) \in DOMAIN last.pre[BLOCK_CF]
    /\ MerkleStoreKey("Account", ret.height) \in DOMAIN last.pre[BLOCK_CF]
    /\ MerkleRootKey("Account", ret.height) \notin DOMAIN db[BLOCK_CF]
    /\ \E e2 \in Selectors \ {ret.height} : MerkleStoreKey("Account", e2) \in DOMAIN db[BLOCK_CF]
    /\ \E h \in Selectors : MerkleRootKey("Base", h) \in DOMAIN db[BLOCK_CF]
\* The rows of a dump section whose key text begins with the bytes p.
RowsStartingWith(rows, p) == {i \in 1..Len(rows) : StartsWith(rows[i].key, p)}

\* The key texts of a replay-protection bucket of the dumped store.
BucketTexts(bucket) ==
    {KeyText(k) : k \in {x \in DOMAIN ret.store[REPLAY_PROTECTION_CF] : x[1] = bucket}}

\* The key texts a dump emitted in its replay-protection section.
DumpedReplay == {ret.outcome.replay[i].key : i \in 1..Len(ret.outcome.replay)}

\* C38 as stated: dump_block emits the `last` and `all` buckets and no `buffer`
\* entry when the height is the last committed one, only the `all` bucket when
\* it is last - 1, and no replay-protection entry for any other height.
C38_DumpReplayWithoutBuffer ==
    (ret.op = "dump_block" /\ ret.outcome.result # "none"
        /\ BLOCK_HEIGHT_KEY \in DOMAIN ret.store[STATE_CF]) =>
        DumpedReplay =
            IF ret.height = ret.last_height
            THEN BucketTexts("last") \cup BucketTexts("all")
            ELSE IF ret.height = ret.last_height - 1 THEN BucketTexts("all")
            ELSE {}

\* C38: dump_block emits the whole replay-protection column family, the
\* `last`, `all` and `buffer` buckets, when the height is the last committed
\* one, only the `all` bucket when it is last - 1, and no replay-protection
\* entry for any other height.
C38_DumpReplayByHeight ==
    (ret.op = "dump_block" /\ ret.outcome.result # "none"
        /\ BLOCK_HEIGHT_KEY \in DOMAIN ret.store[STATE_CF]) =>
        DumpedReplay =
            IF ret.height = ret.last_height
            THEN BucketTexts("last") \cup BucketTexts("all") \cup BucketTexts("buffer")
            ELSE IF ret.height = ret.last_height - 1 THEN BucketTexts("all")
            ELSE {}

\* A dump at last - 1 of a store that holds entries in all three buckets
\* emitted the `all` bucket.
C38_Witness ==
    /\ ret.op = "dump_block"
    /\ ret.outcome.result = "ok"
    /\ ret.height = ret.last_height - 1
    /\ BucketTexts("last") # {} /\ BucketTexts("all") # {} /\ BucketTexts("buffer") # {}
    /\ DumpedReplay = BucketTexts("all")
\* The heights whose decimal text is the leading segment of a row of a dump
\* section.
LeadingHeights(rows) ==
    {n \in TextNumbers :
        \E i \in 1..Len(rows) : StartsWith(rows[i].key, DecimalText(n) \o <<47>>)}

\* C39: dump_block with historic = true and requested height h emits, from the
\* diffs CF and the block CF, only entries whose leading height segment is
\* exactly h; entries of another committed height whose decimal text begins
\* with the digits of h (height 10 when h = 1) are not emitted.
C39_HistoricDumpOfExactHeight ==
    (ret.op = "dump_block" /\ ret.historic /\ ret.outcome.result = "ok") =>
        /\ LeadingHeights(ret.outcome.diffs) \subseteq {ret.height}
        /\ LeadingHeights(ret.outcome.block) \subseteq {ret.height}
\* C40: historic reads stay consistent across a rollback: when rollback
\* succeeds right after the commit of block L on top of block L-1, then for
\* every key K with persisted diffs and every H <= L-1,
\* read_subspace_val_with_height(K, H, L-1) on the store after the rollback is
\* what it was on the store right before block L was committed.
C40_HistoricReadsAcrossRollback ==
    [][(IsRollback /\ last.op = "commit" /\ last'.result = "ok"
            /\ RecordedHeight(last.pre) = RecordedHeight(db) - 1) =>
          LET L == RecordedHeight(db)
          IN \A k \in Keys : persist[k] =>
                 \A H \in 0..(L - 1) :
                     read_subspace_val_with_height(db', AccountKey(k), H, L - 1)
                         = read_subspace_val_with_height(last.pre, AccountKey(k), H, L - 1)]_vars
\* A rollback succeeded right after the commit of block L on top of block
\* L-1, L >= 1, for a key with persisted diffs that block L had changed and
\* whose value at L-1 is read from the restored subspace.
C40_Witness ==
    /\ RolledBackOneBlock
    /\ RecordedHeight(db) = RecordedHeight(last.pre) - 1
    /\ \E k \in Keys :
           /\ persist[k]
           /\ GetCf(last.pre, SUBSPACE_CF, AccountKey(k)) # GetCf(db, SUBSPACE_CF, AccountKey(k))
           /\ IsSome(GetCf(db, SUBSPACE_CF, AccountKey(k)))
           /\ ChangedAt(db, AccountKey(k), RecordedHeight(db)) = FALSE
           /\ read_subspace_val_with_height(db, AccountKey(k), RecordedHeight(db),
                                            RecordedHeight(db))
                  = GetCf(db, SUBSPACE_CF, AccountKey(k))

====
